---- MODULE Spec2Model ----
(***************************************************************************)
(* SecureShards: the threshold secret-splitting core                       *)
(* (helpers/secureshards: field arithmetic over GF(211), Shamir split and  *)
(* Lagrange reconstruction per character, AES-GCM shard codec) as a state  *)
(* machine of one splitString call followed by reconstructString calls.    *)
(***************************************************************************)
EXTENDS Integers, Sequences, FiniteSets, TLC

(***************************************************************************)
(* JavaScript numbers that are not integers.  Every integer the core       *)
(* handles is >= 0, so the two non-integer values are coded below zero.    *)
(***************************************************************************)
NaN == -1

Undefined == -2

IsNum(v) == v >= 0

\* JavaScript's % : the result takes the sign of the dividend.
JsMod(a, m) == IF a >= 0 THEN a % m ELSE 0 - ((0 - a) % m)

(***************************************************************************)
(* Field arithmetic                                                        *)
(***************************************************************************)
prime == 211

\* add without its reduction.
addUnreduced(a, b) == IF IsNum(a) /\ IsNum(b) THEN a + b ELSE NaN

add(a, b) == IF IsNum(a) /\ IsNum(b) THEN JsMod(a + b, prime) ELSE NaN

\* subtract without its second reduction.
subtractNoWrap(a, b) ==
    IF IsNum(a) /\ IsNum(b) THEN JsMod(a - b, prime) ELSE NaN

subtract(a, b) ==
    IF IsNum(a) /\ IsNum(b)
    THEN JsMod(JsMod(a - b, prime) + prime, prime)
    ELSE NaN

multiply(a, b) == IF IsNum(a) /\ IsNum(b) THEN JsMod(a * b, prime) ELSE NaN

\* What a call returns or throws: err = "none" and the value, or the error.
Ok(v) == [err |-> "none", val |-> v]

Throw(e) == [err |-> e, val |-> NaN]

\* The while loop of inversemod and the test after it.
RECURSIVE InverseLoop(_, _, _, _, _, _)
InverseLoop(a, m, x1, x2, y1, y2) ==
    IF m > 0
    THEN LET q == a \div m
         IN  InverseLoop(m, a - q * m,
                         x2, subtract(x1, multiply(q, x2)),
                         y2, subtract(y1, multiply(q, y2)))
    ELSE IF a # 1 THEN Throw("NoInverse") ELSE Ok(x1)

\* With a = NaN the loop body runs once (q = NaN, [a, m] = [m, NaN]), the
\* test m > 0 is then false and a = m # 1: the call throws.
inversemod(a, m) ==
    IF ~IsNum(a)
    THEN Throw("NoInverse")
    ELSE InverseLoop(JsMod(JsMod(a, m) + m, m), m, 1, 0, 0, 1)

divide(a, b) ==
    LET inv == inversemod(b, prime)
    IN  IF inv.err # "none" THEN inv ELSE Ok(multiply(a, inv.val))

(***************************************************************************)
(* Polynomials                                                             *)
(***************************************************************************)
\* Horner's loop run from the lowest coefficient up.
RECURSIVE HornerLoopUpwards(_, _, _, _)
HornerLoopUpwards(coefficients, x, i, result) ==
    IF i < 1
    THEN result
    ELSE HornerLoopUpwards(coefficients, x, i - 1,
             add(multiply(result, x),
                 coefficients[Len(coefficients) + 1 - i]))

\* Horner's loop, i from coefficients.length - 1 down to 0 (i is 1-based here).
RECURSIVE HornerLoop(_, _, _, _)
HornerLoop(coefficients, x, i, result) ==
    IF i < 1
    THEN result
    ELSE HornerLoop(coefficients, x, i - 1,
                    add(multiply(result, x), coefficients[i]))

evaluatePolynomial(coefficients, x) ==
    HornerLoop(coefficients, x, Len(coefficients), 0)

\* The random draws of one call are the sequence rnd (degree of them).
generatePolynomial(degree, intercept, rnd) ==
    <<intercept>> \o [i \in 1..degree |-> rnd[i]]

\* split with its loop started at 0 instead of 1.
splitFromZero(secret, numShares, threshold, rnd) ==
    LET polynomial == generatePolynomial(threshold - 1, secret, rnd)
    IN  [i \in 1..numShares |->
            <<i - 1, evaluatePolynomial(polynomial, i - 1)>>]

split(secret, numShares, threshold, rnd) ==
    LET polynomial == generatePolynomial(threshold - 1, secret, rnd)
    IN  [i \in 1..numShares |-> <<i, evaluatePolynomial(polynomial, i)>>]

(***************************************************************************)
(* Lagrange interpolation.  A row is what decryptedShares.map(share =>     *)
(* share[index]) yields: per supplied bundle its entry at that index, or   *)
(* undefined (def = FALSE) when the bundle is shorter.                     *)
(***************************************************************************)
Elem(e, n) == IF n <= Len(e) THEN e[n] ELSE Undefined

\* The inner loop over j for a fixed i, from j on, with the term so far.
RECURSIVE InnerLoop(_, _, _, _, _)
InnerLoop(shares, x, i, j, term) ==
    IF j > Len(shares)
    THEN Ok(term)
    ELSE IF i = j
    THEN InnerLoop(shares, x, i, j + 1, term)
    ELSE IF ~shares[j].def
    THEN Throw("TypeError")
    ELSE LET d == divide(subtract(x, Elem(shares[j].e, 1)),
                         subtract(Elem(shares[i].e, 1), Elem(shares[j].e, 1)))
         IN  IF d.err # "none"
             THEN d
             ELSE InnerLoop(shares, x, i, j + 1, multiply(term, d.val))

\* The outer loop over i, from i on, with the result so far.
RECURSIVE OuterLoop(_, _, _, _)
OuterLoop(shares, x, i, result) ==
    IF i > Len(shares)
    THEN Ok(result)
    ELSE IF ~shares[i].def
    THEN Throw("TypeError")
    ELSE LET t == InnerLoop(shares, x, i, 1, Elem(shares[i].e, 2))
         IN  IF t.err # "none"
             THEN t
             ELSE OuterLoop(shares, x, i + 1, add(result, t.val))

interpolate(shares, x) == OuterLoop(shares, x, 1, 0)

\* reconstruct that reads the polynomial at 1.
reconstructAtOne(shares) == interpolate(shares, 1)

reconstruct(shares) == interpolate(shares, 0)

(***************************************************************************)
(* Texts are sequences of one-character strings, JavaScript strings of     *)
(* UTF-16 code units are sequences of their codes.                         *)
(***************************************************************************)
DigitChars == <<"0", "1", "2", "3", "4", "5", "6", "7", "8", "9">>

\* String(n) for an integer n >= 0, as Array.prototype.join renders it.
RECURSIVE NumberToText(_)
NumberToText(n) ==
    IF n < 10
    THEN <<DigitChars[n + 1]>>
    ELSE NumberToText(n \div 10) \o <<DigitChars[(n % 10) + 1]>>

\* parts.join(sep)
RECURSIVE Join(_, _)
Join(parts, sep) ==
    IF Len(parts) = 0 THEN <<>>
    ELSE IF Len(parts) = 1 THEN parts[1]
    ELSE parts[1] \o <<sep>> \o Join(Tail(parts), sep)

\* text.split(sep): the pieces between the separators; one piece, the empty
\* text, when the text is empty.
RECURSIVE SplitLoop(_, _, _, _, _)
SplitLoop(text, sep, i, piece, done) ==
    IF i > Len(text)
    THEN Append(done, piece)
    ELSE IF text[i] = sep
    THEN SplitLoop(text, sep, i + 1, <<>>, Append(done, piece))
    ELSE SplitLoop(text, sep, i + 1, Append(piece, text[i]), done)

Split(text, sep) == SplitLoop(text, sep, 1, <<>>, <<>>)

IsDigit(c) == \E d \in 1..10 : DigitChars[d] = c

DigitValue(c) == (CHOOSE d \in 1..10 : DigitChars[d] = c) - 1

RECURSIVE DigitsValue(_, _)
DigitsValue(text, acc) ==
    IF Len(text) = 0
    THEN acc
    ELSE DigitsValue(Tail(text), 10 * acc + DigitValue(Head(text)))

\* Number(text) on a text without blanks: 0 for the empty text, the value of
\* a run of digits, NaN otherwise.
Number(text) ==
    IF \A i \in 1..Len(text) : IsDigit(text[i])
    THEN DigitsValue(text, 0)
    ELSE NaN

stringToAsciiArray(str) == str

\* String.fromCharCode(code): ToUint16, which maps NaN to 0.
FromCharCode(code) == IF IsNum(code) THEN code % 65536 ELSE 0

asciiArrayToString(arr) == [i \in 1..Len(arr) |-> FromCharCode(arr[i])]

(***************************************************************************)
(* Shard codec.  Bytes are sequences of blobs: a nonce, or an AES-GCM      *)
(* ciphertext with its tag, which names the key and nonce it was made      *)
(* under and the plaintext; a token is a text of symbols: the base64 text  *)
(* of one blob, a colon, or a character that is not of the base64          *)
(* alphabet.                                                               *)
(***************************************************************************)
Blob(kind, iv, key, pt) == [kind |-> kind, iv |-> iv, key |-> key, pt |-> pt]

NoBlob == Blob("none", 0, <<>>, <<>>)

B64(blob) == [t |-> "b64", blob |-> blob]

Colon == [t |-> "colon", blob |-> NoBlob]

Junk == [t |-> "junk", blob |-> NoBlob]

\* A key that does not depend on the password.
DeriveKeyFixed(password) == <<>>

\* crypto.subtle.digest('SHA-256', encoder.encode(password)): the key is
\* the password's digest, and distinct passwords have distinct digests.
DeriveKey(password) == password

\* share.map(s => s.join(' ')).join(',')
SerializeBundle(share) ==
    Join([i \in 1..Len(share) |->
            Join([k \in 1..Len(share[i]) |-> NumberToText(share[i][k])], " ")],
         ",")

\* decodedData.split(',').map(part => part.split(' ').map(Number))
ParseBundle(decodedData) ==
    LET parts == Split(decodedData, ",")
    IN  [i \in 1..Len(parts) |->
            LET nums == Split(parts[i], " ")
            IN  [k \in 1..Len(nums) |-> Number(nums[k])]]

\* encryptShare with the nonce that crypto.getRandomValues drew.
encryptShare(share, password, iv) ==
    LET data == SerializeBundle(share)
        encryptedData == Blob("ct", iv, DeriveKey(password), data)
    IN  <<B64(Blob("iv", iv, <<>>, <<>>)), Colon, B64(encryptedData)>>

\* encryptedShare.split(':')
RECURSIVE ColonLoop(_, _, _, _)
ColonLoop(token, i, piece, done) ==
    IF i > Len(token)
    THEN Append(done, piece)
    ELSE IF token[i].t = "colon"
    THEN ColonLoop(token, i + 1, <<>>, Append(done, piece))
    ELSE ColonLoop(token, i + 1, Append(piece, token[i]), done)

SplitColon(token) == ColonLoop(token, 1, <<>>, <<>>)

\* Buffer.from(part, 'base64'): never throws; characters outside the base64
\* alphabet are skipped.
RECURSIVE BufferFromBase64(_)
BufferFromBase64(part) ==
    IF Len(part) = 0 THEN <<>>
    ELSE IF Head(part).t = "b64"
    THEN <<Head(part).blob>> \o BufferFromBase64(Tail(part))
    ELSE BufferFromBase64(Tail(part))

\* crypto.subtle.decrypt({name: 'AES-GCM', iv}, aesKey, encryptedData):
\* the tag verifies only for an untouched ciphertext under its own key and
\* nonce.
AesGcmVerifies(key, iv, data) ==
    /\ Len(data) = 1
    /\ data[1].kind = "ct"
    /\ data[1].key = key
    /\ iv = <<Blob("iv", data[1].iv, <<>>, <<>>)>>

Bundle(b) == [err |-> "none", val |-> b]

Reject(e) == [err |-> e, val |-> <<>>]

decryptShare(encryptedShare, password) ==
    LET parts == SplitColon(encryptedShare)
        iv == BufferFromBase64(parts[1])
        key == DeriveKey(password)
    IN  IF Len(parts) < 2
        THEN Reject("TypeError")
        ELSE LET encryptedData == BufferFromBase64(parts[2])
             IN  IF ~AesGcmVerifies(key, iv, encryptedData)
                 THEN Reject("OperationError")
                 ELSE Bundle(ParseBundle(encryptedData[1].pt))

\* A row of only the bundles that reach the index.
RowOfLongEnough(decryptedShares, index) ==
    LET reach == SelectSeq(decryptedShares, LAMBDA b : index <= Len(b))
    IN  [k \in 1..Len(reach) |-> [def |-> TRUE, e |-> reach[k][index]]]

\* What Array.from (lines 139-141) and asciiArrayToString make of the
\* decrypted bundles: the first throw of a position aborts the call.
Row(decryptedShares, index) ==
    [k \in 1..Len(decryptedShares) |->
        IF index <= Len(decryptedShares[k])
        THEN [def |-> TRUE, e |-> decryptedShares[k][index]]
        ELSE [def |-> FALSE, e |-> <<>>]]

RECURSIVE PositionLoop(_, _, _)
PositionLoop(decryptedShares, index, asciiValues) ==
    IF index > Len(decryptedShares[1])
    THEN [err |-> "none", val |-> asciiArrayToString(asciiValues)]
    ELSE LET r == reconstruct(Row(decryptedShares, index))
         IN  IF r.err # "none"
             THEN Reject(r.err)
             ELSE PositionLoop(decryptedShares, index + 1,
                               Append(asciiValues, r.val))

InterpolateAll(decryptedShares) ==
    IF Len(decryptedShares) = 0
    THEN Reject("TypeError")
    ELSE PositionLoop(decryptedShares, 1, <<>>)

\* The per-character splits of splitString, regrouped per shard index.
CombinedShares(secret, numShares, threshold, rnd) ==
    LET asciiValues == stringToAsciiArray(secret)
    IN  [index \in 1..numShares |->
            [c \in 1..Len(asciiValues) |->
                split(asciiValues[c], numShares, threshold, rnd[c])[index]]]

(***************************************************************************)
(* Bounds of the model                                                     *)
(***************************************************************************)
MaxLen == 2

MaxShares == 3

MaxCoeffs == 1

MaxNonce == 0

MaxSupplied == 3

SecretChars == {72, 210}

\* Math.floor(Math.random() * prime)
RandomDraws == 0..(prime - 1)

\* The draws the model follows: 0 and the largest ones.
Coefficients == {r \in RandomDraws : r = 0 \/ r >= prime - MaxCoeffs}

Nonces == 0..MaxNonce

Passwords == {<<"p">>, <<"p", "w">>}

SeqsUpTo(S, n) == UNION {[1..k -> S] : k \in 0..n}

Secrets == SeqsUpTo(SecretChars, MaxLen)

\* Ways a holder can hand a token over: as issued, with the colon lost, with
\* a character that is not base64 put in front, with the ciphertext altered.
Forms == {"asis", "nocolon", "junk", "tampered"}

Forge(form, token) ==
    CASE form = "asis" -> token
      [] form = "nocolon" -> SelectSeq(token, LAMBDA sym : sym.t # "colon")
      [] form = "junk" -> <<Junk>> \o token
      [] form = "tampered" ->
            [i \in 1..Len(token) |->
                IF token[i].blob.kind = "ct"
                THEN B64(Blob("garbage", 0, <<>>, <<>>))
                ELSE token[i]]

(***************************************************************************)
(* State                                                                   *)
(***************************************************************************)
VARIABLES
    spc,            \* splitString: "idle", "encrypting", "done"
    secret, numShares, threshold, password,
    coeffs,         \* the coefficients Math.random drew, per character
    combinedShares, \* the bundle of each shard index
    encSettled,     \* the encryptShare calls that have completed
    tokens,         \* what Promise.all collects, then splitString's result
    earlier,        \* the tokens and the secret of an earlier splitString
    rpc,            \* reconstructString: "idle", "decrypting", "failed",
                    \* "ready" (every token decrypted), "done"
    picks,          \* how each supplied token was taken: shard index, form,
                    \* and the call that issued it
    encryptedShares, rpassword,
    decSettled,     \* the decryptShare calls that have completed
    results,        \* what each completed decryptShare returned or threw
    outcome,        \* what reconstructString returned or threw
    observed,       \* the shard indices whose share an observer holds
    candidate,      \* the value the observer tries for the secret
    \* GenerateTab: its state (secret and password are genSecret and
    \* genPassword here, errorMessage and successMessage genErrorMessage and
    \* genSuccessMessage)
    genSecret, genPassword, requiredShards, totalShards, exportFormats,
    shards, safetyChecklist, genErrorMessage, genSuccessMessage, isExporting,
    generating,     \* a handleGenerateShards is awaiting splitString
    generation,     \* how many handleGenerateShards have set shards
    shardsOf,       \* the generation the shards in the state are of
    confirmedIn,    \* per checklist item, the generation during which it
                    \* was ticked last
    exporting,      \* what the exportShards under way holds in its closure
    downloads,      \* the ZIP downloads so far
    selectedPreset, currentStep,
    recoveryTestBundle, \* what startRecoveryTest handed over last
    madeWith,       \* the arguments of the splitString call that returned
                    \* the shards in the state
    \* RecoverTab: its state (password is recPassword here, errorMessage and
    \* successMessage recErrorMessage and recSuccessMessage)
    recPassword, uploadedFiles, recoveredSecret, recErrorMessage,
    recSuccessMessage, diagnostics,
    hpc,            \* handleRecovery: "idle", "reading", "reconstructing"
    fileIndex,      \* the file handleRecovery is reading
    shardSet,       \* its shardSet, in insertion order
    nextDiagnostics,
    sorted,         \* per supported file read, what addShard made of it
    recoveries,     \* how many handleRecovery have been started
    testShards,     \* the shards of a loaded recovery test bundle
    earlierCall,    \* a handleRecovery still awaiting when the button is
                    \* clicked again
    \* One call of a function of the core on its own
    call,           \* the function called and its arguments
    frame,          \* the local variables of its loop, while it runs
    ret             \* what it returned or threw

splitVars == <<spc, secret, numShares, threshold, password, coeffs,
               combinedShares, encSettled, tokens, earlier>>

recVars == <<rpc, picks, encryptedShares, rpassword, decSettled, results,
             outcome>>

hidingVars == <<observed, candidate>>

wizardVars == <<selectedPreset, currentStep, recoveryTestBundle>>

genVars == <<genSecret, genPassword, requiredShards, totalShards,
             wizardVars, exportFormats, shards, safetyChecklist,
             genErrorMessage, genSuccessMessage, isExporting, generating,
             generation, shardsOf, madeWith, confirmedIn, exporting,
             downloads>>

tabVars == <<recPassword, uploadedFiles, recoveredSecret, recErrorMessage,
             recSuccessMessage, diagnostics, hpc, fileIndex, shardSet,
             nextDiagnostics, sorted, recoveries, testShards, earlierCall>>

appVars == <<genVars, tabVars>>

calcVars == <<call, frame, ret>>

vars == <<splitVars, recVars, hidingVars, appVars, calcVars>>

NoToken == <<>>

NoOutcome == [err |-> "pending", val |-> <<>>]

NoEarlier == [tokens |-> <<>>, secret |-> <<>>]

NoCall == [fn |-> "none", args |-> <<>>]

NoFrame == [on |-> FALSE]

\* uploadedFiles: null, or the FileList.
NoFiles == [null |-> TRUE, list |-> <<>>]

\* The checklist items.
ChecklistItems == {"distributedShards", "passwordStoredSeparately"}

initialDiagnostics ==
    [duplicatesIgnored |-> 0, filesSelected |-> 0, pdfFiles |-> 0,
     pngFiles |-> 0, qrDecoded |-> 0, qrFailed |-> 0, sourceTestShards |-> 0,
     supportedFiles |-> 0, txtFiles |-> 0, uniqueShards |-> 0,
     unsupportedFiles |-> 0]

\* No exportShards is under way.
NoExport ==
    [shards |-> <<>>, formats |-> {}, checked |-> FALSE, of |-> 0,
     confirmedIn |-> <<>>, readme |-> <<>>]

\* No splitString call has returned shards.
NoSplit == [required |-> 0, total |-> 0, password |-> <<>>]

\* No recovery test bundle has been handed over.
NoBundle ==
    [null |-> TRUE, password |-> <<>>, requiredShards |-> 0,
     shards |-> <<>>, totalShards |-> 0]

\* No earlier handleRecovery is awaiting.
NoEarlierCall ==
    [on |-> FALSE, ends |-> "", val |-> <<>>, looped |-> FALSE,
     nd |-> initialDiagnostics]

\* The useState initial values of the two tabs.
InitTabs ==
    /\ genSecret = <<>>
    /\ genPassword = <<>>
    /\ requiredShards = 2
    /\ totalShards = 3
    /\ exportFormats = {"TXT"}
    /\ shards = <<>>
    /\ safetyChecklist = [item \in ChecklistItems |-> FALSE]
    /\ genErrorMessage = ""
    /\ genSuccessMessage = ""
    /\ isExporting = FALSE
    /\ generating = FALSE
    /\ generation = 0
    /\ shardsOf = 0
    /\ confirmedIn = [item \in ChecklistItems |-> 0]
    /\ exporting = NoExport
    /\ downloads = {}
    /\ selectedPreset = "starter"
    /\ currentStep = 1
    /\ recoveryTestBundle = NoBundle
    /\ madeWith = NoSplit
    /\ recPassword = <<>>
    /\ uploadedFiles = NoFiles
    /\ recoveredSecret = <<>>
    /\ recErrorMessage = ""
    /\ recSuccessMessage = ""
    /\ diagnostics = <<>>
    /\ hpc = "idle"
    /\ fileIndex = 0
    /\ shardSet = <<>>
    /\ nextDiagnostics = initialDiagnostics
    /\ sorted = <<>>
    /\ recoveries = 0
    /\ testShards = <<>>
    /\ earlierCall = NoEarlierCall

InitCore ==
    /\ InitTabs
    /\ spc = "idle"
    /\ secret = <<>>
    /\ numShares = 0
    /\ threshold = 0
    /\ password = <<>>
    /\ coeffs = <<>>
    /\ combinedShares = <<>>
    /\ encSettled = {}
    /\ tokens = <<>>
    /\ earlier = NoEarlier
    /\ rpc = "idle"
    /\ picks = <<>>
    /\ encryptedShares = <<>>
    /\ rpassword = <<>>
    /\ decSettled = {}
    /\ results = <<>>
    /\ outcome = NoOutcome
    /\ observed = {}
    /\ candidate = NaN

Init ==
    /\ InitCore
    /\ call = NoCall
    /\ frame = NoFrame
    /\ ret = NoOutcome

(***************************************************************************)
(* splitString                                                             *)
(***************************************************************************)
\* splitString up to its await: the shares of every character are computed
\* and regrouped, and one encryptShare is started per shard index.
SplitStringCall(s, n, t, pw) ==
    /\ \E rnd \in [1..Len(s) -> [1..(t - 1) -> Coefficients]] :
          /\ secret' = s
          /\ numShares' = n
          /\ threshold' = t
          /\ password' = pw
          /\ coeffs' = rnd
          /\ combinedShares' = CombinedShares(s, n, t, rnd)
          /\ tokens' = [i \in 1..n |-> NoToken]
    /\ encSettled' = {}
    /\ spc' = "encrypting"

StartSplit(secrets, maxShares, passwords) ==
    \E s \in secrets, n \in 1..maxShares, pw \in passwords :
       \E t \in 1..n : SplitStringCall(s, n, t, pw)

CallSplit ==
    /\ spc = "idle"
    /\ StartSplit(Secrets, MaxShares, Passwords)
    /\ UNCHANGED <<earlier, recVars, hidingVars, calcVars, appVars>>

\* Values kept in the order in which the promises settle.
PromiseAllStoreArrival(values, settled, i, v) ==
    [values EXCEPT ![Cardinality(settled) + 1] = v]

\* Promise.all keeps each value at the index of its promise.
PromiseAllStore(values, settled, i, v) == [values EXCEPT ![i] = v]

\* One encryptShare completes, in any order; the last one resolves
\* Promise.all and splitString returns the array.
EncryptSettles(i) ==
    /\ spc = "encrypting"
    /\ i \in 1..numShares
    /\ i \notin encSettled
    /\ \E iv \in Nonces :
          tokens' = PromiseAllStore(tokens, encSettled, i,
                        encryptShare(combinedShares[i], password, iv))
    /\ encSettled' = encSettled \cup {i}
    /\ spc' = IF encSettled' = 1..numShares THEN "done" ELSE "encrypting"
    /\ UNCHANGED <<secret, numShares, threshold, password, coeffs,
                   combinedShares, earlier>>

EncryptDone(i) ==
    EncryptSettles(i) /\ UNCHANGED <<recVars, hidingVars, calcVars, appVars>>

(***************************************************************************)
(* reconstructString                                                       *)
(***************************************************************************)
\* The lists a caller can supply: tokens of the split in any order and
\* number, repeats included, and possibly a last one that is not as issued.
PickLists ==
    {p \in SeqsUpTo((1..numShares) \X Forms \X {"this"}, MaxSupplied) :
        \A k \in 1..Len(p) : p[k][2] # "asis" => k = Len(p)}

Issued(pick) ==
    IF pick[3] = "this" THEN tokens[pick[1]] ELSE earlier.tokens[pick[1]]

\* reconstructString up to its await, on the tokens taken as p tells.
ReconstructStringCall(p, shares, pw) ==
    /\ picks' = p
    /\ encryptedShares' = shares
    /\ rpassword' = pw
    /\ results' = [k \in 1..Len(shares) |-> NoOutcome]
    /\ decSettled' = {}
    /\ rpc' = "decrypting"
    /\ outcome' = NoOutcome

StartReconstruct(lists, passwords) ==
    \E p \in lists, pw \in passwords :
        ReconstructStringCall(
            p, [k \in 1..Len(p) |-> Forge(p[k][2], Issued(p[k]))], pw)

CallReconstruct ==
    /\ spc = "done"
    /\ rpc = "idle"
    /\ StartReconstruct(PickLists, Passwords)
    /\ UNCHANGED <<splitVars, hidingVars, calcVars, appVars>>

\* Promise.allSettled with the rejections dropped: best-effort recovery.
PromiseAllSettled(res, settled) ==
    IF settled = 1..Len(res)
    THEN [state |-> "ready",
          values |-> LET ok == SelectSeq(res, LAMBDA r : r.err = "none")
                     IN  [k \in 1..Len(ok) |-> ok[k].val]]
    ELSE [state |-> "decrypting", values |-> <<>>]

\* Promise.all over the decryptShare calls: rejected as soon as one of them
\* rejects, fulfilled with every bundle once all have fulfilled.
PromiseAll(res, settled) ==
    IF \E k \in settled : res[k].err # "none"
    THEN [state |-> "failed", values |-> <<>>]
    ELSE IF settled = 1..Len(res)
    THEN [state |-> "ready", values |-> [k \in 1..Len(res) |-> res[k].val]]
    ELSE [state |-> "decrypting", values |-> <<>>]

\* One decryptShare completes, in any order.  The first rejection is the
\* error reconstructString throws; what the other calls do after it is seen
\* by nobody and is left out.
DecryptSettles(k) ==
    /\ rpc = "decrypting"
    /\ k \in 1..Len(encryptedShares)
    /\ k \notin decSettled
    /\ LET r == decryptShare(encryptedShares[k], rpassword)
       IN  /\ results' = [results EXCEPT ![k] = r]
           /\ decSettled' = decSettled \cup {k}
           /\ rpc' = PromiseAll(results', decSettled').state
           /\ outcome' = IF rpc' = "failed" THEN Reject(r.err) ELSE outcome
    /\ UNCHANGED <<picks, encryptedShares, rpassword>>

DecryptDone(k) ==
    DecryptSettles(k) /\ UNCHANGED <<splitVars, hidingVars, calcVars, appVars>>

\* The rest of reconstructString run on the bundles decrypted so far,
\* without waiting for the others.
InterpolateWithoutBarrier ==
    /\ rpc \in {"ready", "decrypting"}
    /\ LET got == SelectSeq(results, LAMBDA r : r.err = "none")
       IN  outcome' = InterpolateAll([k \in 1..Len(got) |-> got[k].val])
    /\ rpc' = "done"
    /\ UNCHANGED <<picks, encryptedShares, rpassword, decSettled, results>>

\* The synchronous rest of reconstructString, after the await.
InterpolateRest ==
    /\ \/ rpc = "ready"
       \/ rpc = "decrypting" /\ PromiseAll(results, decSettled).state = "ready"
    /\ outcome' = InterpolateAll(PromiseAll(results, decSettled).values)
    /\ rpc' = "done"
    /\ UNCHANGED <<picks, encryptedShares, rpassword, decSettled, results>>

Interpolate ==
    InterpolateRest /\ UNCHANGED <<splitVars, hidingVars, calcVars, appVars>>

Next ==
    \/ CallSplit
    \/ \E i \in 1..MaxShares : EncryptDone(i)
    \/ CallReconstruct
    \/ \E k \in 1..MaxSupplied : DecryptDone(k)
    \/ Interpolate

Spec == Init /\ [][Next]_vars

(***************************************************************************)
(* Two splits under one password, and a reconstruction from tokens of      *)
(* both.                                                                   *)
(***************************************************************************)
MixedMaxLen == 1

MixedMaxShares == 2

MixedMaxSupplied == 2

MixedSecrets == SeqsUpTo(SecretChars, MixedMaxLen)

FirstSplit ==
    /\ spc = "idle"
    /\ StartSplit(MixedSecrets, MixedMaxShares, Passwords)
    /\ UNCHANGED <<earlier, recVars, hidingVars, calcVars, appVars>>

\* splitString is called again with the same password; the tokens of the
\* first call stay with their holders.
SecondSplit ==
    /\ spc = "done"
    /\ rpc = "idle"
    /\ earlier = NoEarlier
    /\ StartSplit(MixedSecrets, MixedMaxShares, {password})
    /\ earlier' = [tokens |-> tokens, secret |-> secret]
    /\ UNCHANGED <<recVars, hidingVars, calcVars, appVars>>

MixedPickLists ==
    SeqsUpTo(((1..numShares) \X {"asis"} \X {"this"})
                \cup ((1..Len(earlier.tokens)) \X {"asis"} \X {"earlier"}),
             MixedMaxSupplied)

ReconstructMixed ==
    /\ spc = "done"
    /\ rpc = "idle"
    /\ earlier # NoEarlier
    /\ StartReconstruct(MixedPickLists, {password})
    /\ UNCHANGED <<splitVars, hidingVars, calcVars, appVars>>

NextMixed ==
    \/ FirstSplit
    \/ SecondSplit
    \/ \E i \in 1..MixedMaxShares : EncryptDone(i)
    \/ ReconstructMixed
    \/ \E k \in 1..MixedMaxSupplied : DecryptDone(k)
    \/ Interpolate

SpecMixed == Init /\ [][NextMixed]_vars

(***************************************************************************)
(* What an observer of fewer than threshold shares of one value can tell:  *)
(* split is applied to one value, the observer collects shares and tries   *)
(* values for the secret.                                                  *)
(***************************************************************************)
MaxHidingThreshold == 3

MaxHidingDraws == 1

FieldElements == 0..(prime - 1)

HidingValues == {72, prime - 1}

\* The draws followed for the split that is observed.
HidingDraws == {(k * 70) % prime : k \in 0..MaxHidingDraws}

SplitValue ==
    /\ spc = "idle"
    /\ \E v \in HidingValues, n \in 2..MaxShares :
       \E t \in 2..(IF n < MaxHidingThreshold THEN n ELSE MaxHidingThreshold) :
       \E rnd \in [1..(t - 1) -> HidingDraws] :
          /\ secret' = <<v>>
          /\ numShares' = n
          /\ threshold' = t
          /\ coeffs' = <<rnd>>
          /\ combinedShares' = [i \in 1..n |-> <<split(v, n, t, rnd)[i]>>]
    /\ spc' = "shared"
    /\ UNCHANGED <<password, encSettled, tokens, earlier, recVars,
                   hidingVars, calcVars,
                   appVars>>

\* The observer gets hold of one more share, of at most threshold - 1.
Observe(i) ==
    /\ spc = "shared"
    /\ i \in 1..numShares
    /\ i \notin observed
    /\ Cardinality(observed) < threshold - 1
    /\ observed' = observed \cup {i}
    /\ UNCHANGED <<splitVars, recVars, candidate, appVars, calcVars>>

\* The values tried: every field element against a threshold of 2, two of
\* them against a larger one.
Candidates == IF threshold = 2 THEN FieldElements ELSE HidingValues

Guess ==
    /\ spc = "shared"
    /\ candidate = NaN
    /\ \E v \in Candidates : candidate' = v
    /\ UNCHANGED <<splitVars, recVars, observed, appVars, calcVars>>

NextHiding ==
    \/ SplitValue
    \/ \E i \in 1..MaxShares : Observe(i)
    \/ Guess

SpecHiding == Init /\ [][NextHiding]_vars

(***************************************************************************)
(* The Generate tab.  A text the user types is a sequence of characters,   *)
(* the secret a sequence of character codes.                               *)
(***************************************************************************)
\* The white space String.prototype.trim strips, as codes and as characters.
WhiteCodes == {9, 10, 11, 12, 13, 32}

WhiteChars == {" ", "\n"}

Min(S) == CHOOSE m \in S : \A n \in S : m <= n

Max(S) == CHOOSE m \in S : \A n \in S : m >= n

\* text.trim()
Trim(text, white) ==
    LET kept == {i \in 1..Len(text) : text[i] \notin white}
    IN  IF kept = {} THEN <<>> ELSE SubSeq(text, Min(kept), Max(kept))

MaxGenerations == 2

MaxTypedSecret == 1

MaxTyped == 2

\* What the user types as the secret and as the password.
TypedSecrets == SeqsUpTo({32, 72}, MaxTypedSecret)

TypedPasswords == SeqsUpTo({" ", "p"}, MaxTyped)

\* onChange of the secret and password fields.
setSecret ==
    /\ ~generating
    /\ generation = 0
    /\ \E text \in TypedSecrets : genSecret' = text
    /\ UNCHANGED <<genPassword, requiredShards, totalShards, wizardVars,
                   exportFormats, shards, safetyChecklist, genErrorMessage,
                   genSuccessMessage, isExporting, generating, generation,
                   shardsOf, madeWith, confirmedIn, exporting, downloads>>
    /\ UNCHANGED <<splitVars, recVars, hidingVars, calcVars, tabVars>>

setPassword ==
    /\ ~generating
    /\ generation = 0
    /\ \E text \in TypedPasswords : genPassword' = text
    /\ UNCHANGED <<genSecret, requiredShards, totalShards, wizardVars,
                   exportFormats, shards, safetyChecklist, genErrorMessage,
                   genSuccessMessage, isExporting, generating, generation,
                   shardsOf, madeWith, confirmedIn, exporting, downloads>>
    /\ UNCHANGED <<splitVars, recVars, hidingVars, calcVars, tabVars>>

\* handleGenerateShards up to its await; at most limit calls get to set
\* shards.
handleGenerateShards(limit) ==
    /\ ~generating
    /\ generation < limit
    /\ IF Trim(genSecret, WhiteCodes) = <<>>
          \/ Trim(genPassword, WhiteChars) = <<>>
       THEN /\ genErrorMessage' = "Your secret and password are both required."
            /\ genSuccessMessage' = ""
            /\ shards' = <<>>
            /\ shardsOf' = 0
            /\ UNCHANGED <<generating, splitVars>>
       ELSE IF exportFormats = {}
       THEN /\ genErrorMessage'
                  = "Pick at least one export format (TXT, PNG, or PDF)."
            /\ genSuccessMessage' = ""
            /\ shards' = <<>>
            /\ shardsOf' = 0
            /\ UNCHANGED <<generating, splitVars>>
       ELSE /\ SplitStringCall(genSecret, totalShards, requiredShards,
                               genPassword)
            /\ generating' = TRUE
            /\ UNCHANGED <<earlier, genErrorMessage, genSuccessMessage,
                           shards, shardsOf>>
    /\ UNCHANGED <<genSecret, genPassword, requiredShards, totalShards,
                   wizardVars, exportFormats, safetyChecklist, isExporting,
                   generation, madeWith, confirmedIn, exporting, downloads>>
    /\ UNCHANGED <<recVars, hidingVars, calcVars, tabVars>>

\* handleGenerateShards that leaves the checklist as it is.
GenerateResolvedKeepsChecklist(shares) ==
    /\ shards' = shares
    /\ genErrorMessage' = ""
    /\ genSuccessMessage'
          = "Shards generated. Review the safety checklist, then export."
    /\ generating' = FALSE
    /\ generation' = generation + 1
    /\ shardsOf' = generation + 1
    /\ madeWith' = [required |-> threshold, total |-> numShares,
                    password |-> password]
    /\ UNCHANGED <<genSecret, genPassword, requiredShards, totalShards,
                   wizardVars, exportFormats, safetyChecklist, isExporting,
                   confirmedIn, exporting, downloads>>

\* handleGenerateShards after its await, with the array splitString gave.
GenerateResolved(shares) ==
    /\ shards' = shares
    /\ safetyChecklist' = [item \in ChecklistItems |-> FALSE]
    /\ genErrorMessage' = ""
    /\ genSuccessMessage'
          = "Shards generated. Review the safety checklist, then export."
    /\ generating' = FALSE
    /\ generation' = generation + 1
    /\ shardsOf' = generation + 1
    /\ madeWith' = [required |-> threshold, total |-> numShares,
                    password |-> password]
    /\ UNCHANGED <<genSecret, genPassword, requiredShards, totalShards,
                   wizardVars, exportFormats, isExporting, confirmedIn,
                   exporting, downloads>>

\* One encryptShare of the splitString that handleGenerateShards awaits
\* completes; the last one resumes the handler.
GenerateEncryptDone(i) ==
    /\ generating
    /\ EncryptSettles(i)
    /\ IF spc' = "done" THEN GenerateResolved(tokens') ELSE UNCHANGED genVars
    /\ UNCHANGED <<recVars, hidingVars, calcVars, tabVars>>

allSafetyChecksDone == \A item \in ChecklistItems : safetyChecklist[item]

\* A tick of a checklist item, shown once there are shards.
toggleSafetyChecklistItem(key) ==
    /\ shards # <<>>
    /\ safetyChecklist' = [safetyChecklist EXCEPT ![key] = ~@]
    /\ confirmedIn' = IF safetyChecklist[key]
                      THEN confirmedIn
                      ELSE [confirmedIn EXCEPT ![key] = generation]
    /\ UNCHANGED <<genSecret, genPassword, requiredShards, totalShards,
                   wizardVars, exportFormats, shards, genErrorMessage,
                   genSuccessMessage, isExporting, generating, generation,
                   shardsOf, madeWith, exporting, downloads>>
    /\ UNCHANGED <<splitVars, recVars, hidingVars, calcVars, tabVars>>

handleFormatChange(format) ==
    /\ exportFormats' = IF format \in exportFormats
                        THEN exportFormats \ {format}
                        ELSE exportFormats \cup {format}
    /\ UNCHANGED <<genSecret, genPassword, requiredShards, totalShards,
                   wizardVars, shards, safetyChecklist, genErrorMessage,
                   genSuccessMessage, isExporting, generating, generation,
                   shardsOf, madeWith, confirmedIn, exporting, downloads>>
    /\ UNCHANGED <<splitVars, recVars, hidingVars, calcVars, tabVars>>

MaxExports == 2

\* exportShards up to its first await, called by the Export button, which
\* is shown once there are shards and disabled until every item is ticked
\* and while an export is under way.
exportShards ==
    /\ shards # <<>>
    /\ allSafetyChecksDone
    /\ ~isExporting
    /\ Cardinality(downloads) < MaxExports
    /\ IF Len(shards) = 0
       THEN /\ genErrorMessage' = "Generate shards before exporting."
            /\ UNCHANGED <<isExporting, exporting>>
       ELSE IF exportFormats = {}
       THEN /\ genErrorMessage' = "Select at least one export format."
            /\ UNCHANGED <<isExporting, exporting>>
       ELSE IF ~allSafetyChecksDone
       THEN /\ genErrorMessage'
                  = "Complete all safety checks before exporting."
            /\ UNCHANGED <<isExporting, exporting>>
       ELSE /\ isExporting' = TRUE
            /\ genErrorMessage' = ""
            /\ exporting' = [shards |-> shards, formats |-> exportFormats,
                             checked |-> allSafetyChecksDone,
                             of |-> shardsOf, confirmedIn |-> confirmedIn,
                             readme |-> <<requiredShards, totalShards>>]
    /\ UNCHANGED <<genSecret, genPassword, requiredShards, totalShards,
                   wizardVars, exportFormats, shards, safetyChecklist,
                   genSuccessMessage, generating, generation, shardsOf,
                   madeWith, confirmedIn, downloads>>
    /\ UNCHANGED <<splitVars, recVars, hidingVars, calcVars, tabVars>>

\* The ZIP is built and link.click() downloads it.
ExportDownloaded ==
    /\ isExporting
    /\ downloads' = downloads \cup {exporting}
    /\ genSuccessMessage'
          = "Shards exported. Keep password and shards in separate locations."
    /\ isExporting' = FALSE
    /\ exporting' = NoExport
    /\ UNCHANGED <<genSecret, genPassword, requiredShards, totalShards,
                   wizardVars, exportFormats, shards, safetyChecklist,
                   genErrorMessage, generating, generation, shardsOf, madeWith,
                   confirmedIn>>
    /\ UNCHANGED <<splitVars, recVars, hidingVars, calcVars, tabVars>>

\* Rendering a QR code or a PDF throws: the catch block of exportShards.
ExportFailed ==
    /\ isExporting
    /\ exporting.formats \cap {"PNG", "PDF"} # {}
    /\ genErrorMessage'
          = "Export failed. Try again or choose fewer formats at once."
    /\ isExporting' = FALSE
    /\ exporting' = NoExport
    /\ UNCHANGED <<genSecret, genPassword, requiredShards, totalShards,
                   wizardVars, exportFormats, shards, safetyChecklist,
                   genSuccessMessage, generating, generation, shardsOf,
                   madeWith, confirmedIn, downloads>>
    /\ UNCHANGED <<splitVars, recVars, hidingVars, calcVars, tabVars>>

ExportFormats == {"TXT", "PNG"}

NextGenerate ==
    \/ setSecret
    \/ setPassword
    \/ handleGenerateShards(MaxGenerations)
    \/ \E i \in 1..MaxShares : GenerateEncryptDone(i)
    \/ \E key \in ChecklistItems : toggleSafetyChecklistItem(key)
    \/ \E format \in ExportFormats : handleFormatChange(format)
    \/ exportShards
    \/ ExportDownloaded
    \/ ExportFailed

SpecGenerate == Init /\ [][NextGenerate]_vars

(***************************************************************************)
(* The Recover tab.  A file is its extension and what reading it gives:    *)
(* file.text() for a .txt, the decoded QR code for a .png or .pdf (null    *)
(* when none is found), or an exception.                                   *)
(***************************************************************************)
\* A white-space character in the text of a file.
Space == [t |-> "space", blob |-> NoBlob]

WhiteSymbols == {Space}

Text(text) == [kind |-> "text", text |-> text]

Null == [kind |-> "null", text |-> <<>>]

Throws == [kind |-> "throws", text |-> <<>>]

File(ext, read) == [ext |-> ext, read |-> read]

MaxFiles == 2

MaxRecoveries == 2

\* Shard 1 of another generation of the same secret under the same
\* password, whose polynomials have other coefficients.
OtherGenerationShard ==
    encryptShare([c \in 1..Len(combinedShares[1]) |->
                     <<1, add(combinedShares[1][c][2], 1)>>],
                 password, 0)

\* The files a holder of exported shards can upload: shards as exported,
\* as TXT, PNG or PDF, a TXT with a line end added, empty and blank TXT
\* files, images no QR code is found in, a file that is not a PDF under a
\* .pdf name, a file of another kind, a shard of another generation, and a
\* shard whose ciphertext was altered.
FileChoices ==
    {File("txt", Text(shards[i])) : i \in 1..Len(shards)}
        \cup {File("txt", Text(OtherGenerationShard)),
              File("txt", Text(Forge("tampered", shards[1]))),
              File("txt", Text(shards[1] \o <<Space>>)),
              File("txt", Text(<<>>)), File("txt", Text(<<Space>>)),
              File("png", Text(shards[1])), File("png", Null),
              File("pdf", Text(shards[Len(shards)])), File("pdf", Null),
              File("pdf", Throws),
              File("jpg", Text(shards[1]))}

handleFileUpload ==
    /\ hpc = "idle"
    /\ recoveries = 0
    /\ uploadedFiles = NoFiles
    /\ shards # <<>>
    /\ \E files \in SeqsUpTo(FileChoices, MaxFiles) :
          uploadedFiles' = [null |-> FALSE, list |-> files]
    /\ recErrorMessage' = ""
    /\ UNCHANGED <<recPassword, recoveredSecret, recSuccessMessage,
                   diagnostics, hpc, fileIndex, shardSet, nextDiagnostics,
                   sorted, recoveries, testShards, earlierCall>>
    /\ UNCHANGED <<splitVars, recVars, hidingVars, calcVars, genVars>>

\* The shards and the password of the Generate tab are handed over as a
\* recovery test bundle and loaded.
loadRecoveryTestBundle ==
    /\ hpc = "idle"
    /\ recoveries = 0
    /\ testShards = <<>>
    /\ shards # <<>>
    /\ recPassword' = genPassword
    /\ testShards' = shards
    /\ recErrorMessage' = ""
    /\ recSuccessMessage' = "Loaded recent test bundle."
    /\ UNCHANGED <<uploadedFiles, recoveredSecret, diagnostics, hpc,
                   fileIndex, shardSet, nextDiagnostics, sorted, recoveries,
                   earlierCall>>
    /\ UNCHANGED <<splitVars, recVars, hidingVars, calcVars, genVars>>

\* onChange of the Recover tab's password field.
setRecPassword ==
    /\ hpc = "idle"
    /\ recoveries < MaxRecoveries
    /\ \E text \in TypedPasswords : recPassword' = text
    /\ UNCHANGED <<uploadedFiles, recoveredSecret, recErrorMessage,
                   recSuccessMessage, diagnostics, hpc, fileIndex, shardSet,
                   nextDiagnostics, sorted, recoveries, testShards,
                   earlierCall>>
    /\ UNCHANGED <<splitVars, recVars, hidingVars, calcVars, genVars>>

\* A catch block that leaves successMessage as it is.
RecoveryCatchKeepsSuccess ==
    /\ recErrorMessage' = "Recovery failed."
    /\ hpc' = "idle"
    /\ UNCHANGED recSuccessMessage

\* The catch block of handleRecovery.
RecoveryCatch ==
    /\ recErrorMessage' = "Recovery failed."
    /\ recSuccessMessage' = ""
    /\ hpc' = "idle"

\* handleRecovery after the await of reconstructString.
RecoveryResolved(reconstructed) ==
    /\ recoveredSecret' = reconstructed
    /\ recErrorMessage' = ""
    /\ recSuccessMessage' = "Secret recovered successfully."
    /\ hpc' = "idle"

\* The shard index of a token text, for the record of what was supplied.
PickOf(text) ==
    <<IF \E i \in 1..Len(tokens) : tokens[i] = text
      THEN CHOOSE i \in 1..Len(tokens) : tokens[i] = text
      ELSE 0,
      "asis", "this">>

\* handleRecovery once its loop over the files has ended with the shard set
\* set and the counters nd: lines 137-148.
AfterFiles(set, nd) ==
    /\ diagnostics' = <<[nd EXCEPT !.uniqueShards = Len(set)]>>
    /\ nextDiagnostics' = [nd EXCEPT !.uniqueShards = Len(set)]
    /\ shardSet' = set
    /\ IF Len(set) = 0
       THEN /\ recErrorMessage' = "No valid shards detected."
            /\ recSuccessMessage' = ""
            /\ hpc' = "idle"
            /\ UNCHANGED recVars
       ELSE /\ ReconstructStringCall([k \in 1..Len(set) |-> PickOf(set[k])],
                                     set, Trim(recPassword, WhiteChars))
            /\ hpc' = "reconstructing"
            /\ UNCHANGED <<recErrorMessage, recSuccessMessage>>

\* addShard without its test of shardSet.has(normalized).
addShardAgain(set, nd, value, isQrSource) ==
    LET normalized == IF value.kind = "text"
                      THEN Trim(value.text, WhiteSymbols)
                      ELSE <<>>
    IN  IF normalized = <<>>
        THEN [set |-> set,
              nd |-> IF isQrSource THEN [nd EXCEPT !.qrFailed = @ + 1] ELSE nd,
              as |-> "empty"]
        ELSE [set |-> Append(set, normalized),
              nd |-> IF isQrSource
                     THEN [nd EXCEPT !.qrDecoded = @ + 1]
                     ELSE nd,
              as |-> "unique"]

\* addShard on the shard set and counters so far: what they become, and
\* what the value was taken as.
addShard(set, nd, value, isQrSource) ==
    LET normalized == IF value.kind = "text"
                      THEN Trim(value.text, WhiteSymbols)
                      ELSE <<>>
    IN  IF normalized = <<>>
        THEN [set |-> set,
              nd |-> IF isQrSource THEN [nd EXCEPT !.qrFailed = @ + 1] ELSE nd,
              as |-> "empty"]
        ELSE IF \E k \in 1..Len(set) : set[k] = normalized
        THEN [set |-> set,
              nd |-> [nd EXCEPT !.duplicatesIgnored = @ + 1],
              as |-> "duplicate"]
        ELSE [set |-> Append(set, normalized),
              nd |-> IF isQrSource
                     THEN [nd EXCEPT !.qrDecoded = @ + 1]
                     ELSE nd,
              as |-> "unique"]

\* The loop over the shards of a loaded test bundle, from the k-th on.
RECURSIVE AddTestShards(_, _)
AddTestShards(sofar, k) ==
    IF k > Len(testShards)
    THEN sofar
    ELSE LET added == addShard(sofar.set, sofar.nd,
                               Text(testShards[k]), FALSE)
         IN  AddTestShards([set |-> added.set, nd |-> added.nd,
                            taken |-> Append(sofar.taken, added.as)], k + 1)

\* handleRecovery up to its first await.
handleRecovery ==
    /\ hpc = "idle"
    /\ recoveries < MaxRecoveries
    /\ recoveries' = recoveries + 1
    /\ recoveredSecret' = <<>>
    /\ IF Trim(recPassword, WhiteChars) = <<>>
       THEN /\ recErrorMessage'
                  = "Enter the password you used when generating these shards."
            /\ recSuccessMessage' = ""
            /\ diagnostics' = <<>>
            /\ UNCHANGED <<hpc, fileIndex, shardSet, nextDiagnostics, sorted,
                           recVars>>
       ELSE IF uploadedFiles.null /\ Len(testShards) = 0
       THEN /\ recErrorMessage' = "Upload shard files to continue."
            /\ recSuccessMessage' = ""
            /\ diagnostics' = <<>>
            /\ UNCHANGED <<hpc, fileIndex, shardSet, nextDiagnostics, sorted,
                           recVars>>
       ELSE LET nd == [initialDiagnostics EXCEPT
                          !.filesSelected = Len(uploadedFiles.list),
                          !.sourceTestShards = Len(testShards)]
                first == AddTestShards(
                             [set |-> <<>>, nd |-> nd, taken |-> <<>>], 1)
            IN  IF Len(uploadedFiles.list) = 0
                THEN /\ AfterFiles(first.set, first.nd)
                     /\ fileIndex' = 0
                     /\ sorted' = first.taken
                ELSE /\ diagnostics' = <<>>
                     /\ hpc' = "reading"
                     /\ fileIndex' = 1
                     /\ shardSet' = first.set
                     /\ nextDiagnostics' = first.nd
                     /\ sorted' = first.taken
                     /\ UNCHANGED <<recErrorMessage, recSuccessMessage,
                                    recVars>>
    /\ UNCHANGED <<recPassword, uploadedFiles, testShards, earlierCall>>
    /\ UNCHANGED <<splitVars, hidingVars, calcVars, genVars>>

\* The end of one turn of the loop over the files.
NextFile(set, nd, taken) ==
    /\ sorted' = taken
    /\ IF fileIndex = Len(uploadedFiles.list)
       THEN AfterFiles(set, nd) /\ UNCHANGED fileIndex
       ELSE /\ fileIndex' = fileIndex + 1
            /\ shardSet' = set
            /\ nextDiagnostics' = nd
            /\ UNCHANGED <<diagnostics, recErrorMessage, recSuccessMessage,
                           hpc, recVars>>

\* The read of the file at fileIndex completes: one turn of the loop.
ReadFile ==
    /\ hpc = "reading"
    /\ LET file == uploadedFiles.list[fileIndex]
           nd == nextDiagnostics
           counted ==
               CASE file.ext = "txt" ->
                      [nd EXCEPT !.supportedFiles = @ + 1, !.txtFiles = @ + 1]
                 [] file.ext = "png" ->
                      [nd EXCEPT !.supportedFiles = @ + 1, !.pngFiles = @ + 1]
                 [] file.ext = "pdf" ->
                      [nd EXCEPT !.supportedFiles = @ + 1, !.pdfFiles = @ + 1]
                 [] OTHER -> [nd EXCEPT !.unsupportedFiles = @ + 1]
       IN  IF file.ext \notin {"txt", "png", "pdf"}
           THEN NextFile(shardSet, counted, sorted)
           ELSE IF file.read.kind = "throws"
           THEN /\ RecoveryCatch
                /\ nextDiagnostics' = counted
                /\ UNCHANGED <<diagnostics, fileIndex, shardSet, sorted,
                               recVars>>
           ELSE LET added == addShard(shardSet, counted, file.read,
                                      file.ext # "txt")
                IN  NextFile(added.set, added.nd, Append(sorted, added.as))
    /\ UNCHANGED <<recPassword, uploadedFiles, recoveredSecret, recoveries,
                   testShards, earlierCall>>
    /\ UNCHANGED <<splitVars, hidingVars, calcVars, genVars>>

\* One decryptShare of the reconstructString that handleRecovery awaits
\* completes; a rejection resumes the handler in its catch block.
RecoverDecryptDone(k) ==
    /\ hpc = "reconstructing"
    /\ DecryptSettles(k)
    /\ IF rpc' = "failed"
       THEN RecoveryCatch
       ELSE UNCHANGED <<recErrorMessage, recSuccessMessage, hpc>>
    /\ UNCHANGED <<recPassword, uploadedFiles, recoveredSecret, diagnostics,
                   fileIndex, shardSet, nextDiagnostics, sorted, recoveries,
                   testShards, earlierCall>>
    /\ UNCHANGED <<splitVars, hidingVars, calcVars, genVars>>

\* reconstructString interpolates and returns or throws; the handler
\* resumes.
RecoverInterpolate ==
    /\ hpc = "reconstructing"
    /\ InterpolateRest
    /\ IF outcome'.err = "none"
       THEN RecoveryResolved(outcome'.val)
       ELSE RecoveryCatch /\ UNCHANGED recoveredSecret
    /\ UNCHANGED <<recPassword, uploadedFiles, diagnostics, fileIndex,
                   shardSet, nextDiagnostics, sorted, recoveries, testShards,
                   earlierCall>>
    /\ UNCHANGED <<splitVars, hidingVars, calcVars, genVars>>

AppMaxGenerations == 1

NextApp ==
    \/ setSecret
    \/ setPassword
    \/ handleGenerateShards(AppMaxGenerations)
    \/ \E i \in 1..MaxShares : GenerateEncryptDone(i)
    \/ handleFileUpload
    \/ loadRecoveryTestBundle
    \/ setRecPassword
    \/ handleRecovery
    \/ ReadFile
    \/ \E k \in 1..MaxFiles : RecoverDecryptDone(k)
    \/ RecoverInterpolate

SpecApp == Init /\ [][NextApp]_vars

(***************************************************************************)
(* Vocabulary of the properties                                            *)
(***************************************************************************)
Finished == rpc \in {"done", "failed"}

Returned == rpc = "done" /\ outcome.err = "none"

InField(s) == \A c \in 1..Len(s) : s[c] < prime

AllAsIssued == \A k \in 1..Len(picks) : picks[k][2] = "asis"

DistinctIndices ==
    \A j, k \in 1..Len(picks) : j # k => picks[j][1] # picks[k][1]

\* Genuine tokens of the split, pairwise distinct, with its password.
GoodCall == AllAsIssued /\ DistinctIndices /\ rpassword = password

\* The polynomial that split built for character c.
PolynomialOf(c) == generatePolynomial(threshold - 1, secret[c], coeffs[c])

\* The plaintext sealed in a token as issued.
Plaintext(token) == token[3].blob.pt

\* C1: with the password, any T of the N tokens of a split of a secret of
\* characters below 211 (of any length, zero included) give back the secret.
C1_RoundTrip ==
    (Finished /\ GoodCall /\ InField(secret) /\ Len(picks) = threshold)
        => (Returned /\ outcome.val = secret)

\* The same for secrets of at least one character.
RoundTripNonEmpty ==
    (Finished /\ GoodCall /\ InField(secret) /\ Len(picks) >= threshold
        /\ Len(secret) >= 1)
        => (Returned /\ outcome.val = secret)

\* C2: any k tokens, T <= k <= N, of pairwise distinct shard indices, in any
\* order, give back the secret.
C2_AnySufficientSubset ==
    (Finished /\ GoodCall /\ InField(secret)
        /\ Len(picks) >= threshold /\ Len(picks) <= numShares)
        => (Returned /\ outcome.val = secret)

RECURSIVE Power(_, _)
Power(b, e) == IF e = 0 THEN 1 ELSE b * Power(b, e - 1)

\* The coefficient draws under which split of the value v emits exactly the
\* observed shares.
ConsistentDraws(v) ==
    {rnd \in [1..(threshold - 1) -> RandomDraws] :
        \A i \in observed :
            split(v, numShares, threshold, rnd)[i] = combinedShares[i][1]}

\* C3: for every value tried as the secret, the number of coefficient draws
\* under which split would have emitted exactly the observed shares is the
\* same, 211 to the power of the number of shares short of threshold - 1,
\* hence exactly one when threshold - 1 shares are observed.
C3_FewerSharesHide ==
    (spc = "shared" /\ candidate # NaN)
        => Cardinality(ConsistentDraws(candidate))
               = Power(prime, threshold - 1 - Cardinality(observed))

\* Two of the three shares of a threshold-3 split are observed and a value
\* other than the secret is tried.
C3_Witness ==
    /\ spc = "shared" /\ threshold = 3 /\ Cardinality(observed) = 2
    /\ candidate # NaN /\ candidate # secret[1]
    /\ Cardinality(ConsistentDraws(candidate)) = 1

\* C4: with another password than the split's, a call on one or more of its
\* tokens fails with the authentication error at the first decryption that
\* completes, and never returns a string.
C4_WrongPassword ==
    (rpc # "idle" /\ AllAsIssued /\ Len(picks) >= 1 /\ rpassword # password)
        => /\ rpc \in {"decrypting", "failed"}
           /\ rpc = "decrypting" => decSettled = {}
           /\ rpc = "failed" => outcome.err = "OperationError"

\* A call on T or more genuine tokens of distinct indices under another
\* password has failed with the authentication error.
C4_Witness ==
    /\ rpc = "failed" /\ outcome.err = "OperationError"
    /\ AllAsIssued /\ DistinctIndices /\ rpassword # password
    /\ Len(picks) >= threshold /\ Len(secret) >= 1

\* The token seals the bundle of shard index i: one share per character.
CarriesBundleOf(token, i) ==
    LET b == ParseBundle(Plaintext(token))
    IN  IF Len(secret) = 0
        THEN Plaintext(token) = <<>>
        ELSE /\ Len(b) = Len(secret)
             /\ \A c \in 1..Len(secret) :
                   b[c] = <<i, evaluatePolynomial(PolynomialOf(c), i)>>

\* C5: every token collected so far sits at the position of its shard index
\* i and seals one share per character, in character order, each with x = i
\* and y the value at i of that character's polynomial; when splitString
\* returns there are exactly N of them.
C5_TokensInIndexOrder ==
    rpc = "idle" =>
        /\ spc # "idle" => Len(tokens) = numShares
        /\ spc = "done" => encSettled = 1..numShares
        /\ \A i \in 1..Len(tokens) :
              IF i \in encSettled
              THEN Len(tokens[i]) = 3 /\ CarriesBundleOf(tokens[i], i)
              ELSE tokens[i] = NoToken

\* The third encryption completed before the first two, for a secret of two
\* different characters.
C5_Witness ==
    /\ spc = "encrypting" /\ numShares = 3 /\ encSettled = {3}
    /\ Len(secret) = 2 /\ secret[1] # secret[2] /\ threshold >= 2
    /\ CarriesBundleOf(tokens[3], 3)

\* C6: with threshold 1 every single token, alone, gives back the secret.
C6_ThresholdOne ==
    (Finished /\ GoodCall /\ InField(secret) /\ threshold = 1
        /\ Len(picks) = 1)
        => (Returned /\ outcome.val = secret)

\* With threshold 1 every share's y is the character's value.
ThresholdOneShares ==
    (spc # "idle" /\ threshold = 1 /\ InField(secret))
        => \A i \in 1..numShares : \A c \in 1..Len(secret) :
              combinedShares[i][c] = <<i, secret[c]>>

\* C7: given exactly T-1 tokens of a split and its password, the call
\* raises no error and returns a string as long as the secret.
C7_InsufficientNeverErrors ==
    (Finished /\ GoodCall /\ InField(secret) /\ Len(picks) = threshold - 1)
        => (Returned /\ Len(outcome.val) = Len(secret))

\* The same for thresholds of 2 or more and secrets of at least one
\* character.
InsufficientNonEmpty ==
    (Finished /\ GoodCall /\ InField(secret) /\ Len(picks) = threshold - 1
        /\ threshold >= 2 /\ Len(secret) >= 1)
        => (Returned /\ Len(outcome.val) = Len(secret))

\* Two of the supplied tokens have the same shard index.
SameIndexTwice ==
    \E j, k \in 1..Len(picks) : j # k /\ picks[j][1] = picks[k][1]

\* C8: a call on tokens two of which have the same shard index, issued by
\* one split or by two splits under the same password, fails with
\* 'Inverse does not exist' and returns nothing.
C8_DuplicateIndexFails ==
    (Finished /\ AllAsIssued /\ rpassword = password /\ SameIndexTwice)
        => (rpc = "done" /\ outcome.err = "NoInverse")

\* reconstruct itself: a row in which two shares have the same x makes the
\* call throw 'Inverse does not exist'.
SameXTwice(row) ==
    \E j, k \in 1..Len(row) :
        j # k /\ row[j].def /\ row[k].def /\ row[j].e[1] = row[k].e[1]

DuplicateXThrows ==
    \A index \in 1..(IF rpc = "done" /\ Len(results) >= 1
                     THEN Len(results[1].val) ELSE 0) :
        LET row == Row([k \in 1..Len(results) |-> results[k].val], index)
        IN  (SameXTwice(row) /\ \A k \in 1..Len(row) : row[k].def)
                => reconstruct(row).err = "NoInverse"

\* One of the supplied tokens is rejected by decryptShare.
SomeFailsToDecrypt ==
    \E k \in 1..Len(encryptedShares) :
        decryptShare(encryptedShares[k], rpassword).err # "none"

\* C9: a call one of whose tokens does not decrypt never gets to
\* interpolate and never returns a string.
C9_FailFast ==
    (rpc # "idle" /\ SomeFailsToDecrypt)
        => /\ rpc \in {"decrypting", "failed"}
           /\ outcome.err # "none"
           /\ rpc = "failed" => outcome.err \in {"OperationError", "TypeError"}

\* The call has failed on an altered token after T valid tokens of distinct
\* indices had been decrypted.
C9_Witness ==
    /\ rpc = "failed" /\ rpassword = password
    /\ Len(picks) = threshold + 1 /\ DistinctIndices
    /\ picks[Len(picks)][2] = "tampered"
    /\ decSettled = 1..Len(picks)
    /\ Len(secret) >= 1

\* A token without a colon, or with a character that is not base64.
Malformed(token) ==
    \/ \A i \in 1..Len(token) : token[i].t # "colon"
    \/ \E i \in 1..Len(token) : token[i].t = "junk"

\* C10: a call with the right password on otherwise genuine tokens, one of
\* which has no colon or has a half that is not valid base64, fails, and
\* not with the authentication error.
C10_MalformedRejected ==
    (Finished /\ rpassword = password
        /\ \E k \in 1..Len(encryptedShares) : Malformed(encryptedShares[k]))
        => outcome.err \notin {"none", "OperationError"}

\* A token without its colon is rejected, and not as an authentication
\* failure.
NoColonRejected ==
    (Finished /\ rpassword = password
        /\ \E k \in 1..Len(picks) : picks[k][2] = "nocolon")
        => (rpc = "failed" /\ outcome.err = "TypeError")

(***************************************************************************)
(* The tabs                                                                *)
(***************************************************************************)
Supported == {"txt", "png", "pdf"}

\* The shards of the generation that the uploaded files carry.
ShardsUploaded ==
    {i \in 1..Len(shards) :
        \E f \in 1..Len(uploadedFiles.list) :
            LET file == uploadedFiles.list[f]
            IN  /\ file.ext \in Supported
                /\ file.read.kind = "text"
                /\ Trim(file.read.text, WhiteSymbols) = shards[i]}

\* Every uploaded file is a shard file of the generation, no two of them of
\* the same shard, and there are at least requiredShards of them.
EnoughShardFiles ==
    /\ generation = 1
    /\ ~uploadedFiles.null
    /\ \A f \in 1..Len(uploadedFiles.list) :
          LET file == uploadedFiles.list[f]
          IN  /\ file.ext \in Supported
              /\ file.read.kind = "text"
              /\ \E i \in 1..Len(shards) : file.read.text = shards[i]
    /\ Cardinality(ShardsUploaded) = Len(uploadedFiles.list)
    /\ Len(uploadedFiles.list) >= requiredShards

\* A handleRecovery that called reconstructString comes to its end.
RecoveryEnds == hpc = "reconstructing" /\ hpc' = "idle"

\* C11: when the password typed in the Recover tab is exactly the string
\* the shards were generated with and the files are at least requiredShards
\* distinct shard files of that generation, reconstructString is given the
\* password splitString was given and the secret is recovered.
C11_SamePasswordRecovers ==
    [][(RecoveryEnds /\ EnoughShardFiles /\ recPassword = password)
          => /\ rpassword = password
             /\ recoveredSecret' = secret
             /\ recSuccessMessage' # ""]_vars

\* The same for a password without white space at its ends.
TrimmedPasswordRecovers ==
    [][(RecoveryEnds /\ EnoughShardFiles /\ recPassword = password
          /\ Trim(password, WhiteChars) = password)
          => /\ rpassword = password
             /\ recoveredSecret' = secret
             /\ recSuccessMessage' # ""]_vars

\* C12: every ZIP download carries shards, in at least one format, of a
\* state in which every checklist item was ticked, each of them ticked
\* after the generation of those shards; and whenever shards are in the
\* state, an item that is ticked was ticked after their generation.
C12_ChecklistGatesExport ==
    /\ \A d \in downloads :
          /\ d.shards # <<>>
          /\ d.formats # {}
          /\ d.checked
          /\ d.of >= 1
          /\ \A item \in ChecklistItems : d.confirmedIn[item] = d.of
    /\ \A item \in ChecklistItems :
          (shards # <<>> /\ safetyChecklist[item])
              => confirmedIn[item] = shardsOf

\* The shards of a second generation have been exported after those of the
\* first.
C12_Witness ==
    /\ \E d \in downloads : d.of = 1
    /\ \E d \in downloads : d.of = 2 /\ d.checked

Count(seq, v) == Cardinality({k \in 1..Len(seq) : seq[k] = v})

\* The pairwise distinct non-blank trimmed shard texts handleRecovery was
\* given, in the files it supports and in a loaded test bundle.
ShardTexts ==
    ({Trim(uploadedFiles.list[f].read.text, WhiteSymbols) :
         f \in {g \in 1..Len(uploadedFiles.list) :
                  /\ uploadedFiles.list[g].ext \in Supported
                  /\ uploadedFiles.list[g].read.kind = "text"}}
        \cup {testShards[k] : k \in 1..Len(testShards)}) \ {<<>>}

CountersAddUp ==
    \A n \in 1..Len(diagnostics) :
        LET d == diagnostics[n]
        IN  d.supportedFiles + d.sourceTestShards
                = d.uniqueShards + d.duplicatesIgnored + d.qrFailed

RecoveredMessage == "Secret recovered successfully."

\* reconstructString interpolated every position of the first bundle over
\* the bundles of all the tokens it was given.
ReturnedForAll ==
    /\ Returned
    /\ decSettled = 1..Len(encryptedShares)
    /\ \A k \in 1..Len(results) : results[k].err = "none"
    /\ Len(outcome.val) = Len(results[1].val)

\* C14: the Recover tab shows the success message with a recovered secret
\* only when reconstructString has returned, and shows what it returned;
\* after a handleRecovery whose reconstructString failed, in a decryption
\* or in the interpolation, no success message and no recovered secret are
\* shown.
C14_SuccessOnlyAfterReturn ==
    /\ recoveredSecret # <<>>
          => (recSuccessMessage = RecoveredMessage /\ hpc = "idle")
    /\ (recSuccessMessage = RecoveredMessage /\ recoveredSecret # <<>>)
          => (ReturnedForAll /\ recoveredSecret = outcome.val)
    /\ (hpc = "idle" /\ Finished /\ ~Returned)
          => (recSuccessMessage = "" /\ recoveredSecret = <<>>
              /\ recErrorMessage # "")

\* A second handleRecovery has failed in a decryption, and one has failed
\* in the interpolation.
C14_Witness ==
    /\ hpc = "idle"
    /\ recErrorMessage # ""
    /\ \/ recoveries = 2 /\ rpc = "failed" /\ decSettled # {}
       \/ rpc = "done" /\ outcome.err = "NoInverse"

\* The step in which reconstructString interpolates.
Interpolates == rpc # "done" /\ rpc' = "done"

\* C19: reconstructString interpolates only once every decryptShare of the
\* call has completed with a bundle, and a call one of whose decryptShare
\* has failed does not interpolate in any later step.
C19_DecryptAllBarrier ==
    [][/\ Interpolates
            => /\ decSettled = 1..Len(encryptedShares)
               /\ \A k \in 1..Len(encryptedShares) : results[k].err = "none"
       /\ (\E k \in decSettled : results[k].err # "none")
            => (~Interpolates /\ rpc' = "failed")]_vars

\* The call has interpolated after as many decryptions as a call can have,
\* all of them completed.
C19_Witness ==
    /\ rpc = "done"
    /\ Len(encryptedShares) = MaxSupplied
    /\ decSettled = 1..MaxSupplied
    /\ outcome.err = "none"

(***************************************************************************)
(* Secrets with characters whose code is 211 or more                       *)
(***************************************************************************)
WideMaxLen == 2

WideMaxShares == 3

WideMaxSupplied == 3

\* A character of the field and two beyond it, one of them a multiple of
\* the prime.
WideChars == {72, prime + 89, 2 * prime}

WideSecrets == SeqsUpTo(WideChars, WideMaxLen) \ {<<>>}

SplitWide ==
    /\ spc = "idle"
    /\ StartSplit(WideSecrets, WideMaxShares, Passwords)
    /\ UNCHANGED <<earlier, recVars, hidingVars, calcVars, appVars>>

\* Tokens of the split as issued, in any order and number.
WidePickLists ==
    SeqsUpTo((1..numShares) \X {"asis"} \X {"this"}, WideMaxSupplied)

ReconstructWide ==
    /\ spc = "done"
    /\ rpc = "idle"
    /\ StartReconstruct(WidePickLists, {password})
    /\ UNCHANGED <<splitVars, hidingVars, calcVars, appVars>>

NextWide ==
    \/ SplitWide
    \/ \E i \in 1..WideMaxShares : EncryptDone(i)
    \/ ReconstructWide
    \/ \E k \in 1..WideMaxSupplied : DecryptDone(k)
    \/ Interpolate

SpecWide == Init /\ [][NextWide]_vars

\* C20: splitString of a secret with a character of code c >= 211 completes,
\* and reconstructString on T or more of its tokens, pairwise distinct, with
\* the password returns a string with the character of code c mod 211 at
\* that position and every character of code below 211 as it was.
C20_WideCharactersReduced ==
    /\ spc = "encrypting" => ENABLED (\E i \in 1..numShares : EncryptDone(i))
    /\ (Finished /\ GoodCall /\ Len(picks) >= threshold)
          => /\ Returned
             /\ Len(outcome.val) = Len(secret)
             /\ \A c \in 1..Len(secret) :
                   outcome.val[c] = IF secret[c] >= prime
                                    THEN secret[c] % prime
                                    ELSE secret[c]

\* A call on exactly T tokens has returned a secret of one character of the
\* field and one beyond it.
C20_Witness ==
    /\ Returned
    /\ GoodCall
    /\ Len(picks) = threshold
    /\ threshold >= 2
    /\ secret = <<72, prime + 89>>
    /\ outcome.val = <<72, 89>>

(***************************************************************************)
(* Single calls of the functions of the core, each on its own: the call is *)
(* drawn at the start, the function is applied, and what it returns or     *)
(* throws is kept.  inversemod runs one iteration of its loop per step.    *)
(***************************************************************************)
MaxDegree == 2

MaxX == 3

MaxBundle == 2

\* Coefficients, and values to split, of both sides of the prime.
PolyCoeffs == {0, 1, prime - 1, prime + 89}

\* Share numbers of one and of two digits, values of one and of three.
BundleXs == {1, 10}

BundleYs == {0, prime - 1}

Elements == 0..(prime - 1)

Call(fn, args) == [fn |-> fn, args |-> args]

FieldFunctions == {"add", "subtract", "multiply", "divide"}

\* call is one of the field functions on two elements of the field.
FieldCall ==
    \E fn \in FieldFunctions, a \in Elements, b \in Elements :
       call = Call(fn, <<a, b>>)

InverseCalls == {Call("inversemod", <<a, prime>>) : a \in Elements}

PolynomialCalls ==
    {Call("evaluatePolynomial", <<coefficients, x>>) :
        coefficients \in SeqsUpTo(PolyCoeffs, MaxDegree + 1), x \in 0..MaxX}

SplitCalls ==
    {Call("split", <<value, nt[1], nt[2]>>) :
        value \in PolyCoeffs,
        nt \in {p \in (1..MaxShares) \X (1..MaxShares) : p[2] <= p[1]}}

\* Lists of shares with distinct share numbers.
InterpolateCalls ==
    {Call("interpolate", <<shares, 0>>) :
        shares \in {sh \in SeqsUpTo((1..MaxShares) \X {0, 1, prime - 1},
                                    MaxBundle) :
                       \A i, j \in 1..Len(sh) :
                          i # j => sh[i][1] # sh[j][1]}}

BundleCalls ==
    {Call("encryptShare", <<share>>) :
        share \in SeqsUpTo(BundleXs \X BundleYs, MaxBundle)}

\* Texts a holder of the password can seal into a token: a list of two
\* pairs, a pair, the empty text, a lone number, a letter, a pair with a
\* letter, a list with nothing after its comma, numbers without a blank.
SealedTexts ==
    {<<"1", " ", "2", ",", "3", " ", "4">>, <<"1", " ", "2">>, <<>>,
     <<"7">>, <<"a">>, <<"1", " ", "a">>, <<"1", " ", "2", ",">>,
     <<"1", ",", "2">>}

\* The token AES-GCM makes of a text under the key of the password.
SealText(data, pw, iv) ==
    <<B64(Blob("iv", iv, <<>>, <<>>)), Colon,
      B64(Blob("ct", iv, DeriveKey(pw), data))>>

ReconstructCalls ==
    {Call("reconstructString", <<<<SealText(data, pw, 0)>>, pw>>) :
        data \in SealedTexts, pw \in Passwords}

Calls ==
    InverseCalls \cup PolynomialCalls \cup SplitCalls
        \cup InterpolateCalls \cup BundleCalls \cup ReconstructCalls

InitCalc ==
    /\ InitCore
    /\ FieldCall \/ call \in Calls
    /\ frame = NoFrame
    /\ ret = NoOutcome

Called(fn) == call.fn = fn /\ ~frame.on /\ ret.err = "pending"

addCall ==
    /\ Called("add")
    /\ ret' = Ok(add(call.args[1], call.args[2]))
    /\ UNCHANGED <<call, frame>>
    /\ UNCHANGED <<splitVars, recVars, hidingVars, appVars>>

subtractCall ==
    /\ Called("subtract")
    /\ ret' = Ok(subtract(call.args[1], call.args[2]))
    /\ UNCHANGED <<call, frame>>
    /\ UNCHANGED <<splitVars, recVars, hidingVars, appVars>>

multiplyCall ==
    /\ Called("multiply")
    /\ ret' = Ok(multiply(call.args[1], call.args[2]))
    /\ UNCHANGED <<call, frame>>
    /\ UNCHANGED <<splitVars, recVars, hidingVars, appVars>>

divideCall ==
    /\ Called("divide")
    /\ ret' = divide(call.args[1], call.args[2])
    /\ UNCHANGED <<call, frame>>
    /\ UNCHANGED <<splitVars, recVars, hidingVars, appVars>>

\* inversemod up to its loop (lines 8 and 9).
inversemodCall ==
    /\ Called("inversemod")
    /\ LET a == call.args[1]
           m == call.args[2]
       IN  frame' = [on |-> TRUE,
                     a |-> JsMod(JsMod(a, m) + m, m), m |-> m,
                     x1 |-> 1, x2 |-> 0, y1 |-> 0, y2 |-> 1,
                     q |-> 0, qx2 |-> 0, qy2 |-> 0]
    /\ UNCHANGED <<call, ret>>
    /\ UNCHANGED <<splitVars, recVars, hidingVars, appVars>>

\* One iteration of the loop (lines 10 to 15); q and the two products are
\* kept as the last iteration computed them.
InverseStep ==
    /\ call.fn = "inversemod"
    /\ frame.on
    /\ frame.m > 0
    /\ LET q == frame.a \div frame.m
           qx2 == multiply(q, frame.x2)
           qy2 == multiply(q, frame.y2)
       IN  frame' = [on |-> TRUE,
                     a |-> frame.m, m |-> frame.a - q * frame.m,
                     x1 |-> frame.x2, x2 |-> subtract(frame.x1, qx2),
                     y1 |-> frame.y2, y2 |-> subtract(frame.y1, qy2),
                     q |-> q, qx2 |-> qx2, qy2 |-> qy2]
    /\ UNCHANGED <<call, ret>>
    /\ UNCHANGED <<splitVars, recVars, hidingVars, appVars>>

\* The return without the test before it.
InverseReturnUntested ==
    /\ call.fn = "inversemod"
    /\ frame.on
    /\ ret.err = "pending"
    /\ ~(frame.m > 0)
    /\ ret' = Ok(frame.x1)
    /\ UNCHANGED <<call, frame>>
    /\ UNCHANGED <<splitVars, recVars, hidingVars, appVars>>

\* The test after the loop and the return (lines 16 and 17).
InverseReturn ==
    /\ call.fn = "inversemod"
    /\ frame.on
    /\ ret.err = "pending"
    /\ ~(frame.m > 0)
    /\ ret' = IF frame.a # 1 THEN Throw("NoInverse") ELSE Ok(frame.x1)
    /\ UNCHANGED <<call, frame>>
    /\ UNCHANGED <<splitVars, recVars, hidingVars, appVars>>

evaluatePolynomialCall ==
    /\ Called("evaluatePolynomial")
    /\ ret' = Ok(evaluatePolynomial(call.args[1], call.args[2]))
    /\ UNCHANGED <<call, frame>>
    /\ UNCHANGED <<splitVars, recVars, hidingVars, appVars>>

\* split: the polynomial it generated stays in the frame.
splitCall ==
    /\ Called("split")
    /\ \E rnd \in [1..(call.args[3] - 1) -> Coefficients] :
          /\ frame' = [on |-> TRUE, polynomial |->
                          generatePolynomial(call.args[3] - 1, call.args[1],
                                             rnd)]
          /\ ret' = Ok(split(call.args[1], call.args[2], call.args[3], rnd))
    /\ UNCHANGED call
    /\ UNCHANGED <<splitVars, recVars, hidingVars, appVars>>

interpolateCall ==
    /\ Called("interpolate")
    /\ ret' = interpolate([k \in 1..Len(call.args[1]) |->
                              [def |-> TRUE, e |-> call.args[1][k]]],
                          call.args[2])
    /\ UNCHANGED <<call, frame>>
    /\ UNCHANGED <<splitVars, recVars, hidingVars, appVars>>

\* encryptShare up to the text it encrypts (line 83).
encryptShareCall ==
    /\ Called("encryptShare")
    /\ frame' = [on |-> TRUE, data |-> SerializeBundle(call.args[1])]
    /\ UNCHANGED <<call, ret>>
    /\ UNCHANGED <<splitVars, recVars, hidingVars, appVars>>

\* decryptShare from the text it decrypted on (lines 129 and 130).
decryptShareParses ==
    /\ call.fn = "encryptShare"
    /\ frame.on
    /\ ret.err = "pending"
    /\ ret' = Ok(ParseBundle(frame.data))
    /\ UNCHANGED <<call, frame>>
    /\ UNCHANGED <<splitVars, recVars, hidingVars, appVars>>

\* reconstructString on one token: the bundle decryptShare returned stays
\* in the frame.
reconstructStringCall ==
    /\ Called("reconstructString")
    /\ LET d == decryptShare(call.args[1][1], call.args[2])
       IN  IF d.err # "none"
           THEN /\ ret' = d
                /\ UNCHANGED frame
           ELSE /\ frame' = [on |-> TRUE, decryptedShares |-> <<d.val>>]
                /\ ret' = InterpolateAll(<<d.val>>)
    /\ UNCHANGED call
    /\ UNCHANGED <<splitVars, recVars, hidingVars, appVars>>

NextCalc ==
    \/ addCall
    \/ subtractCall
    \/ multiplyCall
    \/ divideCall
    \/ inversemodCall
    \/ InverseStep
    \/ InverseReturn
    \/ evaluatePolynomialCall
    \/ splitCall
    \/ interpolateCall
    \/ encryptShareCall
    \/ decryptShareParses
    \/ reconstructStringCall

SpecCalc == InitCalc /\ [][NextCalc]_vars

\* The inversemod calls alone, each step taken in the end.
InitInverse ==
    /\ InitCore
    /\ call \in InverseCalls
    /\ frame = NoFrame
    /\ ret = NoOutcome

NextInverse == inversemodCall \/ InverseStep \/ InverseReturn

SpecInverse == InitInverse /\ [][NextInverse]_vars /\ WF_vars(NextInverse)

(***************************************************************************)
(* The functions of the core                                               *)
(***************************************************************************)
ReturnedBy(fn) == call.fn = fn /\ ret.err # "pending"

\* C15: for a and b in [0, 211), add, subtract and multiply return the sum,
\* the difference and the product modulo 211, a value in [0, 211), also when
\* a < b; and what they return inside inversemod, split and interpolate is
\* in [0, 211) as well.
C15_FieldClosure ==
    /\ ReturnedBy("add")
          => (ret.val \in Elements
              /\ ret.val = (call.args[1] + call.args[2]) % prime)
    /\ ReturnedBy("subtract")
          => (ret.val \in Elements
              /\ ret.val = (call.args[1] - call.args[2]) % prime)
    /\ ReturnedBy("multiply")
          => (ret.val \in Elements
              /\ ret.val = (call.args[1] * call.args[2]) % prime)
    /\ (call.fn = "inversemod" /\ frame.on)
          => (/\ {frame.x1, frame.x2, frame.y1, frame.y2} \subseteq Elements
              /\ {frame.qx2, frame.qy2} \subseteq Elements
              /\ frame.a >= 0 /\ frame.m >= 0 /\ frame.q >= 0)
    /\ ReturnedBy("evaluatePolynomial") => ret.val \in Elements
    /\ ReturnedBy("split")
          => \A i \in 1..Len(ret.val) : ret.val[i][2] \in Elements
    /\ (ReturnedBy("interpolate") /\ ret.err = "none")
          => ret.val \in Elements

\* subtract has returned for a < b, and inversemod has multiplied by a
\* quotient of 211.
C15_Witness ==
    \/ ReturnedBy("subtract") /\ call.args = <<0, prime - 1>> /\ ret.val = 1
    \/ call.fn = "inversemod" /\ frame.on /\ frame.q = prime

\* C16: inversemod(a, 211) ends for every a in [0, 211); for a # 0 it
\* returns r in [0, 211) with multiply(a, r) = 1, and dividing by a undoes
\* multiplying by a; for a = 0 it throws.
C16_ModularInverse ==
    /\ [](ReturnedBy("inversemod")
            => IF call.args[1] % prime = 0
               THEN ret = Throw("NoInverse")
               ELSE /\ ret.err = "none"
                    /\ ret.val \in Elements
                    /\ multiply(call.args[1], ret.val) = 1
                    /\ ret = inversemod(call.args[1], call.args[2])
                    /\ \A n \in Elements :
                          LET d == divide(n, call.args[1])
                          IN  /\ d.err = "none"
                              /\ d.val \in Elements
                              /\ multiply(d.val, call.args[1]) = n)
    /\ [][InverseStep => (frame'.m < frame.m /\ frame'.m >= 0)]_vars
    /\ <>(ret.err # "pending")

\* inversemod has returned the inverse of 2 after running its loop.
C16_Witness ==
    /\ ReturnedBy("inversemod")
    /\ call.args[1] = 2
    /\ frame.q > 0
    /\ ret = Ok(106)

\* The sum of coefficients[i] * x^(i - 1) from the i-th coefficient on.
RECURSIVE PowerSum(_, _, _)
PowerSum(coefficients, x, i) ==
    IF i > Len(coefficients)
    THEN 0
    ELSE coefficients[i] * Power(x, i - 1) + PowerSum(coefficients, x, i + 1)

\* C17: evaluatePolynomial returns the sum of coeffs[i] * x^i modulo 211,
\* and split(value, N, T) with 1 <= T <= N makes one polynomial of T
\* coefficients, the first one value and the others in [0, 211), and returns
\* the N pairs [x, f(x)] for x = 1..N in this order.
C17_PolynomialAndSplit ==
    /\ ReturnedBy("evaluatePolynomial")
          => ret.val = PowerSum(call.args[1], call.args[2], 1) % prime
    /\ ReturnedBy("split")
          => LET f == frame.polynomial
             IN  /\ Len(f) = call.args[3]
                 /\ f[1] = call.args[1]
                 /\ \A i \in 2..Len(f) : f[i] \in Elements
                 /\ Len(ret.val) = call.args[2]
                 /\ \A x \in 1..Len(ret.val) :
                       ret.val[x] = <<x, PowerSum(f, x, 1) % prime>>

\* split has returned three pairs of a polynomial of two coefficients, and
\* evaluatePolynomial has evaluated one of three.
C17_Witness ==
    \/ /\ ReturnedBy("split")
       /\ call.args = <<prime - 1, 3, 2>>
       /\ frame.polynomial = <<prime - 1, prime - 1>>
       /\ ret.val = <<<<1, prime - 2>>, <<2, prime - 3>>, <<3, prime - 4>>>>
    \/ /\ ReturnedBy("evaluatePolynomial")
       /\ call.args = <<<<1, 0, prime - 1>>, 2>>
       /\ ret.val = prime - 3

\* C18: parsing, as decryptShare does, the text encryptShare makes of a
\* bundle of 0 or more shares gives the bundle back.
C18_BundleRoundTrip ==
    ReturnedBy("encryptShare") => ret.val = call.args[1]

\* The same for bundles of at least one share.
NonEmptyBundleRoundTrip ==
    (ReturnedBy("encryptShare") /\ call.args[1] # <<>>)
        => ret.val = call.args[1]

(***************************************************************************)
(* Tokens of two splits of secrets of different lengths                    *)
(***************************************************************************)
LengthsMaxLen == 2

LengthSecrets == SeqsUpTo({72}, LengthsMaxLen) \ {<<>>}

FirstSplitLengths ==
    /\ spc = "idle"
    /\ StartSplit(LengthSecrets, MixedMaxShares, Passwords)
    /\ UNCHANGED <<earlier, recVars, hidingVars, calcVars, appVars>>

\* The second call splits a secret of another length with the same password.
SecondSplitLengths ==
    /\ spc = "done"
    /\ rpc = "idle"
    /\ earlier = NoEarlier
    /\ StartSplit({s \in LengthSecrets : Len(s) # Len(secret)},
                  MixedMaxShares, {password})
    /\ earlier' = [tokens |-> tokens, secret |-> secret]
    /\ UNCHANGED <<recVars, hidingVars, calcVars, appVars>>

NextLengths ==
    \/ FirstSplitLengths
    \/ SecondSplitLengths
    \/ \E i \in 1..MixedMaxShares : EncryptDone(i)
    \/ ReconstructMixed
    \/ \E k \in 1..MixedMaxSupplied : DecryptDone(k)
    \/ Interpolate

SpecLengths == Init /\ [][NextLengths]_vars

\* The bundles the call decrypted, in the order supplied.
Decrypted == [k \in 1..Len(results) |-> results[k].val]

AllDecrypted ==
    /\ decSettled = 1..Len(encryptedShares)
    /\ \A k \in 1..Len(results) : results[k].err = "none"

DifferentLengths ==
    \E j, k \in 1..Len(results) : Len(Decrypted[j]) # Len(Decrypted[k])

\* Two of the bundles have the same share number.
SameShareNumber ==
    \E j, k \in 1..Len(results) :
        j # k /\ Decrypted[j][1][1] = Decrypted[k][1][1]

ShorterThanFirst ==
    \E k \in 2..Len(results) : Len(Decrypted[k]) < Len(Decrypted[1])

\* A finished call on tokens that all decrypted, to bundles not all of the
\* same length.
MismatchedCall == Finished /\ AllDecrypted /\ DifferentLengths

\* C21, as stated: a call on tokens that decrypt to bundles of different
\* lengths throws nothing and returns a string, in whatever order the
\* tokens are supplied.
C21_MismatchUndetected == MismatchedCall => Returned

\* C21, amended: such a call returns a string, of the length of the first
\* bundle, exactly when the share numbers are pairwise distinct and no
\* bundle is shorter than the first one supplied; with two equal share
\* numbers it throws 'Inverse does not exist', and otherwise, with a bundle
\* shorter than the first, a TypeError.
C21_MismatchByOrder ==
    MismatchedCall
        => /\ rpc = "done"
           /\ outcome.err =
                 IF SameShareNumber THEN "NoInverse"
                 ELSE IF ShorterThanFirst THEN "TypeError"
                 ELSE "none"
           /\ Returned => Len(outcome.val) = Len(Decrypted[1])

\* The same two tokens of distinct share numbers have been supplied with
\* the shorter bundle first, and the call has returned.
C21_Witness ==
    /\ MismatchedCall
    /\ Len(picks) = 2
    /\ Len(Decrypted[1]) < Len(Decrypted[2])
    /\ ~SameShareNumber
    /\ Returned

\* The longer bundle has been supplied first, and the call has thrown.
LongerFirstThrows ==
    /\ MismatchedCall
    /\ Len(picks) = 2
    /\ Len(Decrypted[1]) > Len(Decrypted[2])
    /\ ~SameShareNumber
    /\ outcome.err = "TypeError"

(***************************************************************************)
(* Plaintexts that are not bundles                                         *)
(***************************************************************************)
IsInteger(text) == Len(text) >= 1 /\ \A i \in 1..Len(text) : IsDigit(text[i])

\* A comma-separated list of one or more 'x y' pairs of integers.
WellFormedText(text) ==
    /\ Len(text) >= 1
    /\ \A part \in {Split(text, ",")[i] : i \in 1..Len(Split(text, ","))} :
          LET nums == Split(part, " ")
          IN  Len(nums) = 2 /\ IsInteger(nums[1]) /\ IsInteger(nums[2])

\* The text sealed in the token of the call.
SealedIn(c) == c.args[1][1][3].blob.pt

\* C22: reconstructString on a token that decrypts under the password to a
\* text that is not a comma-separated list of 'x y' pairs, the empty text
\* included, fails with MalformedShard and returns no secret.
C22_IllFormedRejected ==
    (ReturnedBy("reconstructString") /\ ~WellFormedText(SealedIn(call)))
        => ret.err = "MalformedShard"

\* What the code does with such a text: decryptShare returns a bundle and
\* reconstructString a string.
IllFormedAccepted ==
    ReturnedBy("reconstructString") => ret.err = "none"

(***************************************************************************)
(* The configuration of the Generate tab: presets, sliders and the demo    *)
(* values, followed up to the call of splitString.                         *)
(***************************************************************************)
presetOptions ==
    [starter |-> [required |-> 2, total |-> 3],
     balanced |-> [required |-> 3, total |-> 5],
     paranoid |-> [required |-> 5, total |-> 7],
     custom |-> [required |-> 1, total |-> 1]]

PresetKeys == DOMAIN presetOptions

\* The ends of the two sliders, which are also the clamps of their handlers.
SliderMin == 1

SliderMax == 10

\* What an onChange of a slider can carry, the clamps included.
SliderValues == (SliderMin - 1)..(SliderMax + 1)

\* The state of the Generate tab that the configuration handlers leave.
notConfigured ==
    <<genSecret, genPassword, currentStep, recoveryTestBundle, exportFormats,
      shards, safetyChecklist, genErrorMessage, genSuccessMessage,
      isExporting, generating, generation, shardsOf, madeWith, confirmedIn,
      exporting, downloads>>

\* handlePresetChange that sets the highlighted preset only.
handlePresetChangeHighlightOnly(presetKey) ==
    /\ selectedPreset' = presetKey
    /\ UNCHANGED <<requiredShards, totalShards>>
    /\ UNCHANGED notConfigured
    /\ UNCHANGED <<splitVars, recVars, hidingVars, calcVars, tabVars>>

handlePresetChange(presetKey) ==
    /\ selectedPreset' = presetKey
    /\ IF presetKey \notin PresetKeys \/ presetKey = "custom"
       THEN UNCHANGED <<requiredShards, totalShards>>
       ELSE /\ requiredShards' = presetOptions[presetKey].required
            /\ totalShards' = presetOptions[presetKey].total
    /\ UNCHANGED notConfigured
    /\ UNCHANGED <<splitVars, recVars, hidingVars, calcVars, tabVars>>

\* handleRequiredChange that leaves totalShards as it is.
handleRequiredChangeAlone(value) ==
    /\ requiredShards' = Min({SliderMax, Max({SliderMin, value})})
    /\ selectedPreset' = "custom"
    /\ UNCHANGED totalShards
    /\ UNCHANGED notConfigured
    /\ UNCHANGED <<splitVars, recVars, hidingVars, calcVars, tabVars>>

handleRequiredChange(value) ==
    /\ LET nextRequired == Min({SliderMax, Max({SliderMin, value})})
       IN  /\ requiredShards' = nextRequired
           /\ totalShards' = IF nextRequired > totalShards
                             THEN nextRequired
                             ELSE totalShards
    /\ selectedPreset' = "custom"
    /\ UNCHANGED notConfigured
    /\ UNCHANGED <<splitVars, recVars, hidingVars, calcVars, tabVars>>

handleTotalChange(value) ==
    /\ LET nextTotal == Min({SliderMax, Max({SliderMin, value})})
       IN  /\ totalShards' = nextTotal
           /\ requiredShards' = IF nextTotal < requiredShards
                                THEN nextTotal
                                ELSE requiredShards
    /\ selectedPreset' = "custom"
    /\ UNCHANGED notConfigured
    /\ UNCHANGED <<splitVars, recVars, hidingVars, calcVars, tabVars>>

\* The demo secret and password, cut to their first character.
DemoSecret == <<97>>

DemoPassword == <<"F">>

loadDemoScenario ==
    /\ genSecret' = DemoSecret
    /\ genPassword' = DemoPassword
    /\ requiredShards' = 3
    /\ totalShards' = 5
    /\ selectedPreset' = "balanced"
    /\ exportFormats' = {"TXT", "PDF"}
    /\ currentStep' = 2
    /\ genErrorMessage' = ""
    /\ genSuccessMessage' = "Demo values loaded."
    /\ UNCHANGED <<recoveryTestBundle, shards, safetyChecklist, isExporting,
                   generating, generation, shardsOf, madeWith, confirmedIn,
                   exporting, downloads>>
    /\ UNCHANGED <<splitVars, recVars, hidingVars, calcVars, tabVars>>

ConfigMaxGenerations == 1

NextConfig ==
    \/ setSecret
    \/ setPassword
    \/ ~generating /\ \E key \in PresetKeys : handlePresetChange(key)
    \/ ~generating /\ \E value \in SliderValues : handleRequiredChange(value)
    \/ ~generating /\ \E value \in SliderValues : handleTotalChange(value)
    \/ ~generating /\ generation = 0 /\ loadDemoScenario
    \/ handleGenerateShards(ConfigMaxGenerations)

SpecConfig == Init /\ [][NextConfig]_vars

\* C23: whatever presets, slider values and demo loads came before,
\* 1 <= requiredShards <= totalShards <= 10, and every splitString call of
\* handleGenerateShards has 1 <= threshold <= numShares.
C23_ThresholdPrecondition ==
    /\ SliderMin <= requiredShards
    /\ requiredShards <= totalShards
    /\ totalShards <= SliderMax
    /\ spc # "idle"
          => (/\ SliderMin <= threshold
              /\ threshold <= numShares
              /\ numShares <= SliderMax
              /\ threshold = requiredShards /\ numShares = totalShards)

\* splitString has been called 10 of 10 after the required slider pushed
\* the total up, and 1 of 1 after the total slider pulled the required
\* down.
C23_Witness ==
    /\ spc = "encrypting"
    /\ selectedPreset = "custom"
    /\ \/ threshold = SliderMax /\ numShares = SliderMax
       \/ threshold = SliderMin /\ numShares = SliderMin

PresetMatches ==
    selectedPreset \in PresetKeys \ {"custom"}
        => /\ requiredShards = presetOptions[selectedPreset].required
           /\ totalShards = presetOptions[selectedPreset].total

SliderStep ==
    \E value \in SliderValues :
        handleRequiredChange(value) \/ handleTotalChange(value)

\* C30: a highlighted preset other than custom always has its own required
\* and total as the numbers in the state; a slider change highlights
\* custom; selecting custom leaves the numbers as they are.
C30_PresetMatchesNumbers ==
    /\ []PresetMatches
    /\ [][SliderStep => selectedPreset' = "custom"]_vars
    /\ [][handlePresetChange("custom")
            => (/\ selectedPreset' = "custom"
                /\ requiredShards' = requiredShards
                /\ totalShards' = totalShards)]_vars

\* Paranoid has been selected after a slider change, and custom has been
\* selected with the numbers of the demo.
C30_Witness ==
    \/ /\ selectedPreset = "paranoid"
       /\ requiredShards = 5 /\ totalShards = 7
       /\ genSecret = DemoSecret
    \/ /\ selectedPreset = "custom"
       /\ requiredShards = 3 /\ totalShards = 5

(***************************************************************************)
(* One split of a value, and reconstruct on one share fewer than the       *)
(* threshold.                                                              *)
(***************************************************************************)
BelowMaxShares == 4

BelowMaxThreshold == 3

BelowValues == {0, 72, prime - 1}

\* The draws of the lower coefficients; the top one is any draw.
LowerDraws == {0, 1, prime - 1}

BelowDraws(degree) ==
    {lower \o <<top>> :
        lower \in [1..(degree - 1) -> LowerDraws], top \in RandomDraws}

BelowCalls ==
    {Call("split", <<value, nt[1], nt[2]>>) :
        value \in BelowValues,
        nt \in {p \in (2..BelowMaxShares) \X (2..BelowMaxThreshold) :
                   p[2] <= p[1]}}

InitBelow ==
    /\ InitCore
    /\ call \in BelowCalls
    /\ frame = NoFrame
    /\ ret = NoOutcome

splitDrawn ==
    /\ Called("split")
    /\ \E rnd \in BelowDraws(call.args[3] - 1) :
          /\ frame' = [on |-> TRUE,
                       polynomial |-> generatePolynomial(call.args[3] - 1,
                                                         call.args[1], rnd),
                       threshold |-> call.args[3]]
          /\ ret' = Ok(split(call.args[1], call.args[2], call.args[3], rnd))
    /\ UNCHANGED call
    /\ UNCHANGED <<splitVars, recVars, hidingVars, appVars>>

\* The lists of count different numbers of 1..n.
Selections(n, count) ==
    {sel \in [1..count -> 1..n] :
        \A i, j \in 1..count : i # j => sel[i] # sel[j]}

\* reconstruct on one share fewer than the threshold of the split.
reconstructBelow ==
    /\ call.fn = "split"
    /\ frame.on
    /\ ret.err = "none"
    /\ \E sel \in Selections(Len(ret.val), frame.threshold - 1) :
          LET chosen == [k \in 1..Len(sel) |-> ret.val[sel[k]]]
          IN  /\ call' = Call("reconstruct", <<chosen>>)
              /\ ret' = reconstruct([k \in 1..Len(chosen) |->
                                        [def |-> TRUE, e |-> chosen[k]]])
    /\ UNCHANGED frame
    /\ UNCHANGED <<splitVars, recVars, hidingVars, appVars>>

NextBelow == splitDrawn \/ reconstructBelow

SpecBelow == InitBelow /\ [][NextBelow]_vars

TopCoefficient == frame.polynomial[Len(frame.polynomial)]

\* C25: reconstruct on exactly threshold - 1 of the shares of one split
\* returns the value that was split if and only if the highest-degree
\* coefficient drawn is 0, and a different field element otherwise.
C25_OneShareShort ==
    (call.fn = "reconstruct" /\ frame.on)
        => /\ ret.err = "none"
           /\ ret.val \in Elements
           /\ (ret.val = frame.polynomial[1]) <=> (TopCoefficient = 0)

\* Two shares of a 3-of-4 split have given the value back with the top
\* coefficient 0 and the one below it not, and something else with a top
\* coefficient that is not 0.
C25_Witness ==
    /\ call.fn = "reconstruct" /\ frame.on
    /\ frame.threshold = 3
    /\ Len(call.args[1]) = 2
    /\ frame.polynomial[2] # 0
    /\ \/ TopCoefficient = 0 /\ ret.val = frame.polynomial[1]
       \/ TopCoefficient = prime - 1 /\ ret.val # frame.polynomial[1]

(***************************************************************************)
(* split for as many shares as the caller asks for, and interpolate on two *)
(* of the shares it emitted.                                               *)
(***************************************************************************)
ManyMaxShares == 212

ManyMaxThreshold == 2

\* A few small numbers of shares, the most the sliders allow, and the ones
\* around the prime.
ManyShareCounts ==
    {n \in 1..ManyMaxShares : n <= 2 \/ n = SliderMax \/ n >= prime - 1}

ManyCalls ==
    {Call("split", <<72, nt[1], nt[2]>>) :
        nt \in {p \in ManyShareCounts \X (1..ManyMaxThreshold) :
                   p[2] <= p[1]}}

InitMany ==
    /\ InitCore
    /\ call \in ManyCalls
    /\ frame = NoFrame
    /\ ret = NoOutcome

\* interpolate at 0 on two different shares of the split.
interpolateEmittedPair ==
    /\ call.fn = "split"
    /\ frame.on
    /\ ret.err = "none"
    /\ \E sel \in Selections(Len(ret.val), 2) :
          LET chosen == [k \in 1..2 |-> ret.val[sel[k]]]
          IN  /\ call' = Call("interpolate", <<chosen, 0>>)
              /\ ret' = interpolate([k \in 1..2 |->
                                        [def |-> TRUE, e |-> chosen[k]]], 0)
    /\ UNCHANGED frame
    /\ UNCHANGED <<splitVars, recVars, hidingVars, appVars>>

NextMany == splitCall \/ interpolateEmittedPair

SpecMany == InitMany /\ [][NextMany]_vars

SplitReturned == call.fn = "split" /\ ret.err = "none"

\* C26: every share that split emits has an x that is not 0 modulo the
\* prime and differs modulo the prime from the x of every other share of
\* the same split, for every number of shares split accepts; and two of
\* its shares never make interpolate throw NoInverse.
C26_SharesApartFromZero ==
    /\ SplitReturned
          => \A i \in 1..Len(ret.val) :
                /\ ret.val[i][1] % prime # 0
                /\ \A j \in 1..Len(ret.val) :
                      i # j => ret.val[i][1] % prime # ret.val[j][1] % prime
    /\ (call.fn = "interpolate" /\ frame.on) => ret.err # "NoInverse"

\* Up to prime - 1 shares the x are 1..numShares, apart from 0 and from one
\* another, and every pair interpolates.
UpToPrimeApart ==
    /\ (SplitReturned /\ call.args[2] < prime)
          => \A i \in 1..Len(ret.val) :
                /\ ret.val[i][1] % prime # 0
                /\ \A j \in 1..Len(ret.val) :
                      i # j => ret.val[i][1] % prime # ret.val[j][1] % prime
    /\ (/\ call.fn = "interpolate" /\ frame.on
        /\ call.args[1][1][1] < prime /\ call.args[1][2][1] < prime)
          => ret.err = "none"

\* The share numbered prime carries the secret whatever was drawn, and it
\* does so under a threshold of 2.
PrimethShareIsSecret ==
    (SplitReturned /\ call.args[2] >= prime)
        => ret.val[prime] = <<prime, call.args[1]>>

PrimethShareUnderThreshold ==
    ~(/\ SplitReturned /\ call.args[2] >= prime /\ call.args[3] = 2
      /\ frame.polynomial[2] # 0)

\* Shares 1 and prime + 1 together make interpolate throw.
PairAcrossPrimeInterpolates ==
    ~(/\ call.fn = "interpolate" /\ frame.on
      /\ call.args[1][1][1] = 1 /\ call.args[1][2][1] = prime + 1
      /\ ret.err = "NoInverse")

(***************************************************************************)
(* The three steps of the Generate tab: secret and password, threshold,    *)
(* and generation with export and the recovery test.                       *)
(***************************************************************************)
WizardMaxShards == 2

WizardMaxGenerations == 1

WizardMaxExports == 1

\* What the user types at step 1: a letter, and a character whose code is
\* above the prime.
WizardSecrets == {<<72>>, <<prime + 89>>}

WizardPasswords == {<<"p">>, <<"w">>}

\* onChange of the secret and of the password field of step 1.
secretOnChange ==
    /\ currentStep = 1
    /\ \E text \in WizardSecrets : genSecret' = text
    /\ UNCHANGED <<genPassword, requiredShards, totalShards, wizardVars,
                   exportFormats, shards, safetyChecklist, genErrorMessage,
                   genSuccessMessage, isExporting, generating, generation,
                   shardsOf, madeWith, confirmedIn, exporting, downloads>>
    /\ UNCHANGED <<splitVars, recVars, hidingVars, calcVars, tabVars>>

passwordOnChange ==
    /\ currentStep = 1
    /\ \E text \in WizardPasswords : genPassword' = text
    /\ UNCHANGED <<genSecret, requiredShards, totalShards, wizardVars,
                   exportFormats, shards, safetyChecklist, genErrorMessage,
                   genSuccessMessage, isExporting, generating, generation,
                   shardsOf, madeWith, confirmedIn, exporting, downloads>>
    /\ UNCHANGED <<splitVars, recVars, hidingVars, calcVars, tabVars>>

\* The Next button, shown at steps 1 and 2.
nextStep ==
    /\ currentStep < 3
    /\ IF /\ currentStep = 1
          /\ \/ Trim(genSecret, WhiteCodes) = <<>>
             \/ Trim(genPassword, WhiteChars) = <<>>
       THEN /\ genErrorMessage'
                  = "Add both your secret and password before continuing."
            /\ UNCHANGED currentStep
       ELSE /\ currentStep' = currentStep + 1
            /\ genErrorMessage' = ""
    /\ UNCHANGED <<genSecret, genPassword, requiredShards, totalShards,
                   selectedPreset, recoveryTestBundle, exportFormats, shards,
                   safetyChecklist, genSuccessMessage, isExporting,
                   generating, generation, shardsOf, madeWith, confirmedIn,
                   exporting, downloads>>
    /\ UNCHANGED <<splitVars, recVars, hidingVars, calcVars, tabVars>>

\* The Previous button, disabled at step 1.
prevStep ==
    /\ currentStep > 1
    /\ currentStep' = currentStep - 1
    /\ genErrorMessage' = ""
    /\ UNCHANGED <<genSecret, genPassword, requiredShards, totalShards,
                   selectedPreset, recoveryTestBundle, exportFormats, shards,
                   safetyChecklist, genSuccessMessage, isExporting,
                   generating, generation, shardsOf, madeWith, confirmedIn,
                   exporting, downloads>>
    /\ UNCHANGED <<splitVars, recVars, hidingVars, calcVars, tabVars>>

\* The catch block of handleGenerateShards that leaves the shards.
GenerateRejectedKeepsShards ==
    /\ generating
    /\ spc = "encrypting"
    /\ encSettled = {}
    /\ spc' = "rejected"
    /\ genErrorMessage'
          = "Shard generation failed. Try a shorter secret or regenerate once."
    /\ genSuccessMessage' = ""
    /\ generating' = FALSE
    /\ secret' = <<>>
    /\ numShares' = 0
    /\ threshold' = 0
    /\ password' = <<>>
    /\ coeffs' = <<>>
    /\ combinedShares' = <<>>
    /\ tokens' = <<>>
    /\ UNCHANGED <<encSettled, earlier>>
    /\ UNCHANGED <<genSecret, genPassword, requiredShards, totalShards,
                   wizardVars, exportFormats, shards, shardsOf,
                   safetyChecklist, isExporting, generation, madeWith,
                   confirmedIn, exporting, downloads>>
    /\ UNCHANGED <<recVars, hidingVars, calcVars, tabVars>>

\* The first encryptShare to settle rejects (no crypto.subtle outside a
\* secure context), so does splitString, and handleGenerateShards resumes
\* in its catch block.  Nothing of the call is left.
GenerateRejected ==
    /\ generating
    /\ spc = "encrypting"
    /\ encSettled = {}
    /\ spc' = "rejected"
    /\ genErrorMessage'
          = "Shard generation failed. Try a shorter secret or regenerate once."
    /\ genSuccessMessage' = ""
    /\ shards' = <<>>
    /\ shardsOf' = 0
    /\ generating' = FALSE
    /\ secret' = <<>>
    /\ numShares' = 0
    /\ threshold' = 0
    /\ password' = <<>>
    /\ coeffs' = <<>>
    /\ combinedShares' = <<>>
    /\ tokens' = <<>>
    /\ UNCHANGED <<encSettled, earlier>>
    /\ UNCHANGED <<genSecret, genPassword, requiredShards, totalShards,
                   wizardVars, exportFormats, safetyChecklist, isExporting,
                   generation, madeWith, confirmedIn, exporting, downloads>>
    /\ UNCHANGED <<recVars, hidingVars, calcVars, tabVars>>

\* The Test Recovery Now button, shown once there are shards.  The item
\* testedRecovery that it ticks is of the checklist of its own version of
\* the tab and gates nothing here.
startRecoveryTest ==
    /\ shards # <<>>
    /\ recoveryTestBundle' = [null |-> FALSE, password |-> genPassword,
                              requiredShards |-> requiredShards,
                              shards |-> shards,
                              totalShards |-> totalShards]
    /\ UNCHANGED <<genSecret, genPassword, requiredShards, totalShards,
                   selectedPreset, currentStep, exportFormats, shards,
                   safetyChecklist, genErrorMessage, genSuccessMessage,
                   isExporting, generating, generation, shardsOf, madeWith,
                   confirmedIn, exporting, downloads>>
    /\ UNCHANGED <<splitVars, recVars, hidingVars, calcVars, tabVars>>

\* The Generate button may be clicked any number of times; the calls of
\* splitString after WizardMaxGenerations fulfilled ones are followed only
\* where they reject.  The user acts while no handler is waiting, until
\* the recovery test takes the page to the Recover tab.
Settled == ~generating /\ ~isExporting /\ recoveryTestBundle.null

NextWizard ==
    \/ Settled /\ secretOnChange
    \/ Settled /\ passwordOnChange
    \/ Settled /\ nextStep
    \/ Settled /\ prevStep
    \/ /\ Settled /\ currentStep = 2
       /\ \E value \in 1..WizardMaxShards : handleRequiredChange(value)
    \/ /\ Settled /\ currentStep = 2
       /\ \E value \in 1..WizardMaxShards : handleTotalChange(value)
    \/ Settled /\ currentStep = 3 /\ handleFormatChange("TXT")
    \/ Settled /\ currentStep = 3 /\ handleGenerateShards(generation + 1)
    \/ /\ generation < WizardMaxGenerations
       /\ \E i \in 1..SliderMax : GenerateEncryptDone(i)
    \/ GenerateRejected
    \/ /\ Settled /\ currentStep = 3
       /\ \E key \in ChecklistItems : toggleSafetyChecklistItem(key)
    \/ /\ Settled /\ currentStep = 3
       /\ Cardinality(downloads) < WizardMaxExports
       /\ exportShards
    \/ ExportDownloaded
    \/ Settled /\ currentStep = 3 /\ startRecoveryTest

SpecWizard == Init /\ [][NextWizard]_vars

\* C24: every call of splitString by handleGenerateShards passes a secret
\* whose characters all have a code below the prime.
C24_CharacterRangeEnforced ==
    spc \in {"encrypting", "done"}
        => \A i \in 1..Len(secret) : secret[i] < prime

\* A secret with a character above the prime is never turned into shards
\* that the tab announces.
WideSecretNeverSharded ==
    ~(/\ spc = "done"
      /\ \E i \in 1..Len(secret) : secret[i] >= prime
      /\ shards = tokens
      /\ genErrorMessage = ""
      /\ genSuccessMessage
            = "Shards generated. Review the safety checklist, then export.")

ExportBegins == isExporting' /\ ~isExporting

TestBegins == recoveryTestBundle.null /\ ~recoveryTestBundle'.null

\* C28: the threshold line of the README that exportShards writes, and the
\* password, requiredShards and totalShards of the bundle that
\* startRecoveryTest hands over, are the threshold, numShares and password
\* of the splitString call that produced the shards.
C28_MetadataOfTheSplit ==
    [][/\ ExportBegins
          => exporting'.readme = <<madeWith.required, madeWith.total>>
       /\ TestBegins
          => /\ recoveryTestBundle'.password = madeWith.password
             /\ recoveryTestBundle'.requiredShards = madeWith.required
             /\ recoveryTestBundle'.totalShards = madeWith.total]_vars

\* The README and the bundle carry what the tab shows at the click.
MetadataOfTheClick ==
    [][/\ ExportBegins => exporting'.readme = <<requiredShards, totalShards>>
       /\ TestBegins
          => /\ recoveryTestBundle'.password = genPassword
             /\ recoveryTestBundle'.requiredShards = requiredShards
             /\ recoveryTestBundle'.totalShards = totalShards
             /\ recoveryTestBundle'.shards = shards]_vars

GenerateEndsInError ==
    \/ Settled /\ handleGenerateShards(generation + 1) /\ ~generating'
    \/ GenerateRejected

GenerateSucceeds ==
    /\ generating /\ ~generating'
    /\ \E i \in 1..SliderMax : GenerateEncryptDone(i)

\* C29: when handleGenerateShards ends in an error (blank secret or
\* password, no export format, splitString rejects) shards and
\* successMessage are empty, so an export starts only with shards of the
\* latest generation; when it succeeds errorMessage is empty and shards are
\* the tokens that its splitString call returned.
C29_FailedGenerationLeavesNoShards ==
    [][/\ GenerateEndsInError => (shards' = <<>> /\ genSuccessMessage' = "")
       /\ GenerateSucceeds
          => (spc' = "done" /\ shards' = tokens' /\ genErrorMessage' = "")
       /\ ExportBegins
          => (/\ exporting'.shards = shards
              /\ shards # <<>>
              /\ genErrorMessage' = "")]_vars

\* splitString has rejected after a generation that succeeded.
C29_Witness ==
    /\ generation = 1
    /\ madeWith # NoSplit
    /\ shards = <<>>
    /\ genSuccessMessage = ""
    /\ genErrorMessage
          = "Shard generation failed. Try a shorter secret or regenerate once."

(***************************************************************************)
(* The Recover Secret button clicked again while an earlier handleRecovery *)
(* is still waiting.                                                       *)
(***************************************************************************)
\* The counters after a file of the loop has been counted by its name.
CountFile(nd, file) ==
    CASE file.ext = "txt" ->
           [nd EXCEPT !.supportedFiles = @ + 1, !.txtFiles = @ + 1]
      [] file.ext = "png" ->
           [nd EXCEPT !.supportedFiles = @ + 1, !.pngFiles = @ + 1]
      [] file.ext = "pdf" ->
           [nd EXCEPT !.supportedFiles = @ + 1, !.pdfFiles = @ + 1]
      [] OTHER -> [nd EXCEPT !.unsupportedFiles = @ + 1]

\* The loop over the files from the i-th on: whether a read throws, and the
\* shard set and counters at its end.
RECURSIVE RestOfFiles(_, _, _, _)
RestOfFiles(files, i, set, nd) ==
    IF i > Len(files)
    THEN [throws |-> FALSE, set |-> set, nd |-> nd]
    ELSE LET file == files[i]
             counted == CountFile(nd, file)
         IN  IF file.ext \notin {"txt", "png", "pdf"}
             THEN RestOfFiles(files, i + 1, set, counted)
             ELSE IF file.read.kind = "throws"
             THEN [throws |-> TRUE, set |-> set, nd |-> counted]
             ELSE LET added == addShard(set, counted, file.read,
                                        file.ext # "txt")
                  IN  RestOfFiles(files, i + 1, added.set, added.nd)

\* What reconstructString gives for the tokens and the password.
reconstructString(shares, pw) ==
    LET res == [k \in 1..Len(shares) |-> decryptShare(shares[k], pw)]
    IN  IF \E k \in 1..Len(res) : res[k].err # "none"
        THEN Reject("OperationError")
        ELSE InterpolateAll([k \in 1..Len(res) |-> res[k].val])

\* How the handleRecovery that is waiting will end: in its catch block, with
\* no valid shards, or with a secret.
Awaited ==
    IF hpc = "reading"
    THEN LET rest == RestOfFiles(uploadedFiles.list, fileIndex, shardSet,
                                 nextDiagnostics)
             nd == [rest.nd EXCEPT !.uniqueShards = Len(rest.set)]
             r == reconstructString(rest.set,
                                    Trim(recPassword, WhiteChars))
         IN  IF rest.throws
             THEN [on |-> TRUE, ends |-> "catch", val |-> <<>>,
                   looped |-> FALSE, nd |-> rest.nd]
             ELSE IF Len(rest.set) = 0
             THEN [on |-> TRUE, ends |-> "no shards", val |-> <<>>,
                   looped |-> TRUE, nd |-> nd]
             ELSE IF r.err # "none"
             THEN [on |-> TRUE, ends |-> "catch", val |-> <<>>,
                   looped |-> TRUE, nd |-> nd]
             ELSE [on |-> TRUE, ends |-> "secret", val |-> r.val,
                   looped |-> TRUE, nd |-> nd]
    ELSE LET r == reconstructString(encryptedShares, rpassword)
         IN  IF r.err # "none"
             THEN [on |-> TRUE, ends |-> "catch", val |-> <<>>,
                   looped |-> FALSE, nd |-> nextDiagnostics]
             ELSE [on |-> TRUE, ends |-> "secret", val |-> r.val,
                   looped |-> FALSE, nd |-> nextDiagnostics]

\* The handleRecovery under way keeps waiting for its reads or for
\* reconstructString while the user goes on: nothing stops the password
\* field or the button.  From here on it is followed as a whole.
EarlierKeepsWaiting ==
    /\ hpc \in {"reading", "reconstructing"}
    /\ ~earlierCall.on
    /\ recoveries < MaxRecoveries
    /\ earlierCall' = Awaited
    /\ hpc' = "idle"
    /\ UNCHANGED <<recPassword, uploadedFiles, recoveredSecret,
                   recErrorMessage, recSuccessMessage, diagnostics, fileIndex,
                   shardSet, nextDiagnostics, sorted, recoveries, testShards>>
    /\ UNCHANGED <<splitVars, recVars, hidingVars, calcVars, genVars>>

\* The earlier handleRecovery resumes after its last await and sets the
\* state: lines 137-158.
EarlierSettles ==
    /\ earlierCall.on
    /\ earlierCall' = NoEarlierCall
    /\ diagnostics' = IF earlierCall.looped
                      THEN <<earlierCall.nd>>
                      ELSE diagnostics
    /\ CASE earlierCall.ends = "catch" ->
              /\ recErrorMessage' = "Recovery failed."
              /\ recSuccessMessage' = ""
              /\ UNCHANGED recoveredSecret
         [] earlierCall.ends = "no shards" ->
              /\ recErrorMessage' = "No valid shards detected."
              /\ recSuccessMessage' = ""
              /\ UNCHANGED recoveredSecret
         [] OTHER ->
              /\ recoveredSecret' = earlierCall.val
              /\ recErrorMessage' = ""
              /\ recSuccessMessage' = "Secret recovered successfully."
    /\ UNCHANGED <<recPassword, uploadedFiles, hpc, fileIndex, shardSet,
                   nextDiagnostics, sorted, recoveries, testShards>>
    /\ UNCHANGED <<splitVars, recVars, hidingVars, calcVars, genVars>>

NextOverlap ==
    \/ setSecret
    \/ setPassword
    \/ handleGenerateShards(AppMaxGenerations)
    \/ \E i \in 1..MaxShares : GenerateEncryptDone(i)
    \/ handleFileUpload
    \/ setRecPassword
    \/ handleRecovery
    \/ ReadFile
    \/ \E k \in 1..MaxFiles : RecoverDecryptDone(k)
    \/ RecoverInterpolate
    \/ EarlierKeepsWaiting
    \/ EarlierSettles

SpecOverlap == Init /\ [][NextOverlap]_vars

\* C27: the Recover tab never shows an error message together with a
\* recovered secret, also when handleRecovery is called again while an
\* earlier call is waiting for a read or for the decryption.
C27_NoErrorWithSecret == recErrorMessage # "" => recoveredSecret = <<>>

\* An earlier call that ends in its catch block after a later one has shown
\* the secret leaves both on the page.
FailureAfterLaterSuccess ==
    ~(/\ recErrorMessage = "Recovery failed."
      /\ recSuccessMessage = ""
      /\ recoveredSecret # <<>>
      /\ recoveredSecret = genSecret
      /\ recoveries = 2
      /\ hpc = "idle" /\ ~earlierCall.on)

\* Up to the first time a call is left waiting while the user goes on, no
\* error is shown with a secret.
NoErrorWithSecretInTurn ==
    (recoveries < 2 /\ ~earlierCall.on) => C27_NoErrorWithSecret
====
